---- MODULE Spec2Model ----
(***************************************************************************)
(* Model of the data layer of streamlit_app.py (Database Cinematografico   *)
(* Cosimo): the base CSV file, the manual-add handler, the bulk-import     *)
(* handler with its three duplicate policies, the rating audit, and the    *)
(* pure functions they use (rating simplification and formatting, key      *)
(* construction, pandas' column type inference on read_csv / to_csv).      *)
(*                                                                         *)
(* Texts are modelled by what they contain: a title is a sequence of       *)
(* characters, a numeric-looking cell is a record saying how it is         *)
(* written ("1999", "1999.0", "7,9", "", "nan").  Ratings are integers in  *)
(* tenths (7.9 is 79).                                                     *)
(***************************************************************************)
EXTENDS Integers, Sequences, FiniteSets, TLC

(***************************************************************************)
(* Bounds of the model.                                                    *)
(***************************************************************************)
MaxRows == 2        \* rows the base file may hold in the model
MaxUpload == 2      \* rows of one uploaded batch
MaxTitleLen == 2    \* characters of a title in the key-construction check

(***************************************************************************)
(* Program constants.                                                      *)
(***************************************************************************)
MaxRating10 == 100     \* number_input max_value=10.0, in tenths
GreatThreshold == 75   \* rating10 >= 7.5, in tenths

(***************************************************************************)
(* Cell texts.  k says how the cell is written:                            *)
(*   "empty"  ""        (in a DataFrame: NaN / NA / None)                   *)
(*   "nan"    "nan"     (str() of a missing value)                          *)
(*   "int"    "i"       (an int, or the digits as a string)                 *)
(*   "dot"    "i.f"     (a float, or that string)                           *)
(*   "comma"  "i,f"     (always a string)                                   *)
(***************************************************************************)
TxtEmpty == [k |-> "empty", i |-> 0, f |-> 0]
TxtNan == [k |-> "nan", i |-> 0, f |-> 0]
TxtInt(n) == [k |-> "int", i |-> n, f |-> 0]
TxtDot(n, d) == [k |-> "dot", i |-> n, f |-> d]
TxtComma(n, d) == [k |-> "comma", i |-> n, f |-> d]

\* pd.isna of a cell held in a DataFrame
IsNa(c) == c.k = "empty"

\* A missing number is <<>>, a number n is <<n>>.
Missing == <<>>
Num(n) == <<n>>

(***************************************************************************)
(* Strings: str.strip(), str.lower(), str() of a missing Name.             *)
(***************************************************************************)
IsSpace(c) == c \in {" ", "\n", "\r"}

LowerChar(c) ==
  IF c = "A" THEN "a" ELSE IF c = "B" THEN "b" ELSE IF c = "N" THEN "n" ELSE c

Lower(s) == [j \in 1..Len(s) |-> LowerChar(s[j])]

RECURSIVE LStrip(_)
LStrip(s) == IF s # <<>> /\ IsSpace(Head(s)) THEN LStrip(Tail(s)) ELSE s

RECURSIVE RStrip(_)
RStrip(s) ==
  IF s # <<>> /\ IsSpace(s[Len(s)]) THEN RStrip(SubSeq(s, 1, Len(s) - 1)) ELSE s

Strip(s) == RStrip(LStrip(s))

\* The Name cell of a DataFrame that holds NaN (the file's cell was a NA token).
NaNName == <<"<NaN>">>

\* str(x) / astype(str) of a Name cell: NaN becomes the text "nan".
StrOfName(v) == IF v = NaNName THEN <<"n", "a", "n">> ELSE v

(***************************************************************************)
(* Rating simplification and formatting, manual path and bulk path.        *)
(***************************************************************************)
\* math.floor of a value given in tenths
Floor10(t) == t \div 10

\* a simplifier that rounds to the nearest half instead of down
simplify_round_nearest(r10) ==
  IF r10 = Missing THEN Missing ELSE Num(((r10[1] + 5) \div 10) * 5)

\* _simplify_rating_10: half = r10 / 2.0; floor(half * 2) / 2.0
simplify_rating_10(r10) ==
  IF r10 = Missing THEN Missing
  ELSE LET half20 == r10[1]              \* r10 / 2.0, in twentieths
           twice10 == (half20 * 2) \div 2  \* half * 2, in tenths
           fl == Floor10(twice10)        \* floor(...), an integer
       IN Num((fl * 10) \div 2)           \* / 2.0, in tenths

\* a simplifier that takes a missing rating for 0
simp_zero_default(x) ==
  IF x = Missing THEN Num(0) ELSE Num((Floor10(x[1]) * 10) \div 2)

\* _prepare_rows._simp: floor((x / 2.0) * 2) / 2.0, None for NaN
simp(x) ==
  IF x = Missing THEN Missing
  ELSE LET half20 == x[1]
           twice10 == (half20 * 2) \div 2
           fl == Floor10(twice10)
       IN Num((fl * 10) \div 2)

\* a formatter that always prints the fraction
fmt_always_decimal(val) ==
  IF val = Missing THEN TxtEmpty
  ELSE TxtComma(val[1] \div 10, val[1] % 10)

\* _fmt_simplified: "" for missing, str(int(val)) when val.is_integer(),
\* else str(val) with the dot replaced by a comma
fmt_simplified(val) ==
  IF val = Missing THEN TxtEmpty
  ELSE IF val[1] % 10 = 0 THEN TxtInt(val[1] \div 10)
  ELSE TxtComma(val[1] \div 10, val[1] % 10)

\* _prepare_rows._fmt
fmt(v) ==
  IF v = Missing THEN TxtEmpty
  ELSE IF v[1] % 10 = 0 THEN TxtInt(v[1] \div 10)
  ELSE TxtComma(v[1] \div 10, v[1] % 10)

\* pd.to_numeric(cell.astype(str).str.replace(',', '.'), errors='coerce'),
\* in tenths
ToNumericTenths(c) ==
  IF c.k \in {"empty", "nan"} THEN Missing ELSE Num(c.i * 10 + c.f)

\* str(rating10).replace('.', ','): a float always prints its fraction
Rating10Str(t) == TxtComma(t \div 10, t % 10)

(***************************************************************************)
(* Key construction, at the three places a key is built.                   *)
(***************************************************************************)
\* int(x) of a numeric cell
IntOf(c) == c.i

\* pd.to_numeric(x, errors='coerce') of a Year cell: a number, or NaN for a
\* missing value or a text that is no number
YearNumeric(c) == IF c.k \in {"int", "dot"} THEN c ELSE TxtEmpty

\* the f-string's {y}: the digits of int(year), or "None"
YearStr(c) == IF IsNa(c) THEN "None" ELSE ToString(IntOf(c))

\* a key built without strip()
key_no_strip(s) == Lower(StrOfName(s.Name)) \o <<"|", YearStr(s.Year)>>

\* show_tmdb_metadata.row_key, on a row of the loaded table (Year_Clean)
row_key(s) ==
  LET y == YearNumeric(s.Year)
  IN Lower(Strip(StrOfName(s.Name))) \o <<"|", YearStr(y)>>

\* show_add_film.kbuild, on a row of the prepared upload (Year is Int64)
kbuild(s) == Lower(Strip(StrOfName(s.Name))) \o <<"|", YearStr(s.Year)>>

\* the lambda that keys the rows of the base table read by the import
base_key(s) ==
  LET y == YearNumeric(s.Year)
  IN Lower(Strip(StrOfName(s.Name))) \o <<"|", YearStr(y)>>

(***************************************************************************)
(* pandas: read_csv's column inference, to_csv, astype.                    *)
(* A file is a sequence of rows of cell texts; a DataFrame is a sequence   *)
(* of rows of cell values, written with the same records (a float 1999.0   *)
(* is TxtDot(1999, 0), NaN is TxtEmpty, NaN in Name is NaNName).           *)
(* The field Key is the helper column "_key" the import adds to its tables *)
(* (lines 1402, 1404): NoKeyCol when the table or file has no such column, *)
(* KeyNaN for an empty cell of it, else the key.                           *)
(***************************************************************************)
NoKeyCol == <<"<no column>">>
KeyNaN == <<>>

HasKeyCol(rows) == \E j \in 1..Len(rows) : rows[j].Key # NoKeyCol

Col(rows, fld) == [j \in 1..Len(rows) |-> rows[j][fld]]

\* texts read_csv takes for a missing value, among the model's characters
NaTokens == {<<>>, <<"n", "a", "n">>, <<"N", "a", "N">>, <<"N", "A">>}

ReadNameCell(t) == IF t \in NaTokens THEN NaNName ELSE t

\* dtype read_csv gives a column: object when a cell is no number, float64
\* when a cell is missing or has a fraction, int64 otherwise
ColDtype(cells) ==
  IF \E j \in 1..Len(cells) : cells[j].k = "comma" THEN "object"
  ELSE IF \E j \in 1..Len(cells) : cells[j].k \in {"empty", "nan", "dot"}
       THEN "float64"
  ELSE "int64"

\* the cells of a column as read_csv holds them: NA tokens become NaN, and
\* in a float64 column an integer n is held as the float n.0
ReadColumn(cells) ==
  [j \in 1..Len(cells) |->
     IF cells[j].k \in {"empty", "nan"} THEN TxtEmpty
     ELSE IF ColDtype(cells) = "float64" /\ cells[j].k = "int"
          THEN TxtDot(cells[j].i, 0)
     ELSE cells[j]]

\* pd.read_csv(CSV_BASE_FILE, sep=';', encoding='cp1252') of the rows
read_csv(rows) ==
  [j \in 1..Len(rows) |->
     [Name |-> ReadNameCell(rows[j].Name),
      Year |-> ReadColumn(Col(rows, "Year"))[j],
      Rating |-> ReadColumn(Col(rows, "Rating"))[j],
      R10 |-> ReadColumn(Col(rows, "R10"))[j],
      Duration |-> ReadColumn(Col(rows, "Duration"))[j],
      Greatness |-> rows[j].Greatness,
      Key |-> rows[j].Key]]

\* DataFrame.to_csv(..., index=False): NaN is written as the empty text,
\* every other value as str() of it
to_csv(frame) ==
  [j \in 1..Len(frame) |->
     [frame[j] EXCEPT !.Name = IF @ = NaNName THEN <<>> ELSE @]]

\* pd.to_numeric(col, errors='coerce').astype('Int64')
ToInt64(c) == IF c.k \in {"int", "dot"} THEN TxtInt(c.i) ELSE TxtEmpty

\* col.astype(str).str.replace('.', ',')
AsStrComma(c) ==
  IF c.k = "empty" THEN TxtNan
  ELSE IF c.k = "dot" THEN TxtComma(c.i, c.f)
  ELSE c

\* the column dtype pd.concat gives Year / Duration: the base's float64 and
\* the upload's Int64 meet in Float64, so the appended integers are held as
\* floats; a base part with no value in the column leaves them Int64
CastLike(baseCells, c) ==
  IF (\E j \in 1..Len(baseCells) : baseCells[j].k = "dot") /\ c.k = "int"
  THEN TxtDot(c.i, 0)
  ELSE c

\* a concat that puts the added rows first
concat_new_first(base, add) ==
  [j \in 1..Len(add) |->
     [add[j] EXCEPT !.Year = CastLike(Col(base, "Year"), @),
                    !.Duration = CastLike(Col(base, "Duration"), @),
                    !.Key = IF HasKeyCol(base) THEN KeyNaN ELSE @]] \o base

\* pd.concat([base, add], ignore_index=True); a column only base has is
\* NaN in the rows of add
concat(base, add) ==
  base \o [j \in 1..Len(add) |->
             [add[j] EXCEPT !.Year = CastLike(Col(base, "Year"), @),
                            !.Duration = CastLike(Col(base, "Duration"), @),
                            !.Key = IF HasKeyCol(base) THEN KeyNaN ELSE @]]

\* frame.drop(columns=['_key'])
DropKey(frame) == [j \in 1..Len(frame) |-> [frame[j] EXCEPT !.Key = NoKeyCol]]

(***************************************************************************)
(* Boolean-mask indexing df[mask]: the rows whose index is in keep, in     *)
(* their order.                                                            *)
(***************************************************************************)
RECURSIVE Pick(_, _, _)
Pick(frame, keep, j) ==
  IF j > Len(frame) THEN <<>>
  ELSE (IF j \in keep THEN <<frame[j]>> ELSE <<>>) \o Pick(frame, keep, j + 1)

Mask(frame, keep) == Pick(frame, keep, 1)

\* set(base['_key'].tolist())
BaseKeys(base) == {base_key(base[j]) : j \in 1..Len(base)}

\* the values of prep['_key']
PrepKeys(prep) == {kbuild(prep[j]) : j \in 1..Len(prep)}

(***************************************************************************)
(* _prepare_rows: the uploaded table (cells as read by _read_upload) to    *)
(* rows in the base layout.                                                *)
(***************************************************************************)
\* _read_upload: pd.read_csv of the uploaded text
read_upload(up) ==
  [j \in 1..Len(up) |->
     [Name |-> ReadNameCell(up[j].Name),
      Year |-> ReadColumn(Col(up, "Year"))[j],
      R10 |-> ReadColumn(Col(up, "R10"))[j],
      Duration |-> ReadColumn(Col(up, "Duration"))[j]]]

\* (r10 >= 7.5).astype(int).fillna(0): a comparison with NaN is False
GreatnessOf(r10) ==
  IF r10 # Missing /\ r10[1] >= GreatThreshold THEN 1 ELSE 0

\* one row of _prepare_rows
prepare_row(r) ==
  LET r10 == ToNumericTenths(AsStrComma(r.R10))
      simplified == simp(r10)
  IN [Name |-> Strip(StrOfName(r.Name)),
      Year |-> ToInt64(r.Year),
      Rating |-> fmt(simplified),
      R10 |-> AsStrComma(r.R10),
      Duration |-> ToInt64(r.Duration),
      Greatness |-> GreatnessOf(r10),
      Key |-> NoKeyCol]

prepare_rows(df_up) == [j \in 1..Len(df_up) |-> prepare_row(df_up[j])]

(***************************************************************************)
(* The three duplicate policies of the bulk import (lines 1405-1425):      *)
(* the table written and the counts reported, from the base table as read  *)
(* and the prepared rows.                                                  *)
(***************************************************************************)
Salta == "Salta"
Sovrascrivi == "Sovrascrivi"
Permetti == "Permetti duplicati"
Policies == {Salta, Sovrascrivi, Permetti}

Counts(a, u, s) == [added |-> a, updated |-> u, skipped |-> s]

\* line 1404: base['_key'] = base.apply(lambda s: ...)
WithKey(base) ==
  [j \in 1..Len(base) |-> [base[j] EXCEPT !.Key = base_key(base[j])]]

\* base.empty: out = prep.drop(columns=['_key'])
import_empty_base(prep) ==
  [out |-> prep, counts |-> Counts(Len(prep), 0, 0)]

\* "Permetti duplicati" with the lookup of "Salta"
import_permetti_skip_existing(base, prep) ==
  LET existing_keys == BaseKeys(base)
      to_add == Mask(prep, {j \in 1..Len(prep) :
                              kbuild(prep[j]) \notin existing_keys})
  IN [out |-> concat(WithKey(base), to_add),
      counts |-> Counts(Len(to_add), 0, 0)]

\* "Permetti duplicati": base keeps the column _key it was given at 1404
import_permetti(base, prep) ==
  [out |-> concat(WithKey(base), prep), counts |-> Counts(Len(prep), 0, 0)]

\* "Sovrascrivi" that keeps the existing row and drops the incoming one
import_sovrascrivi_keep_old(base, prep) ==
  LET existing_keys == BaseKeys(base)
      hit == {j \in 1..Len(prep) : kbuild(prep[j]) \in existing_keys}
  IN [out |-> concat(DropKey(base), Mask(prep, (1..Len(prep)) \ hit)),
      counts |-> Counts(Len(prep) - Cardinality(hit), Cardinality(hit), 0)]

\* "Sovrascrivi": remove existing keys then append new
import_sovrascrivi(base, prep) ==
  LET existing_keys == BaseKeys(base)
      mask_keep == {j \in 1..Len(base) :
                      base_key(base[j]) \notin PrepKeys(prep)}
      updated == Cardinality({j \in 1..Len(prep) :
                                kbuild(prep[j]) \in existing_keys})
  IN [out |-> concat(DropKey(Mask(base, mask_keep)), prep),
      counts |-> Counts(Len(prep) - updated, updated, 0)]

\* "Salta" without the lookup of existing keys
import_salta_no_lookup(base, prep) ==
  [out |-> concat(DropKey(base), prep), counts |-> Counts(Len(prep), 0, 0)]

\* "Salta"
import_salta(base, prep) ==
  LET existing_keys == BaseKeys(base)
      to_add == Mask(prep, {j \in 1..Len(prep) :
                              kbuild(prep[j]) \notin existing_keys})
  IN [out |-> concat(DropKey(base), to_add),
      counts |-> Counts(Len(to_add), 0, Len(prep) - Len(to_add))]

\* lines 1405-1425
import_policy(dup_policy, base, prep) ==
  IF base = <<>> THEN import_empty_base(prep)
  ELSE IF dup_policy = Permetti THEN import_permetti(base, prep)
  ELSE IF dup_policy = Sovrascrivi THEN import_sovrascrivi(base, prep)
  ELSE import_salta(base, prep)

(***************************************************************************)
(* State.                                                                  *)
(*   fileExists, file   the base CSV file: whether it exists, and its data *)
(*                      rows (the header row is not modelled as a row)     *)
(*   last               what the last handler run read, computed, wrote    *)
(*                      and reported                                       *)
(*   probe              arguments and results of a pure function, for the  *)
(*                      specifications that check the functions alone      *)
(*   detailed           the rows of the enrichment CSV file                 *)
(*   enr                what the enrichment of the last pass selected,      *)
(*                      looked up, counted and saved                        *)
(*   cache              the table kept by st.cache_data for load_database   *)
(***************************************************************************)
VARIABLES fileExists, file, last, probe, detailed, enr, cache

vars == <<fileExists, file, last, probe, detailed, enr, cache>>

Store == [exists |-> fileExists, rows |-> file]

NoOp ==
  [op |-> "none", outcome |-> "none", policy |-> "", readOk |-> FALSE,
   before |-> [exists |-> FALSE, rows |-> <<>>],
   base |-> <<>>, prep |-> <<>>, out |-> <<>>, counts |-> Counts(0, 0, 0),
   name |-> <<>>, year |-> 0, allow |-> FALSE, row |-> <<>>,
   mid |-> [exists |-> FALSE, rows |-> <<>>], other |-> <<>>,
   pending |-> <<>>, checked |-> 0, appended |-> <<>>]

NoProbe == [fn |-> "none"]

\* detailed is the enrichment file cosimo-film-visti-detailed.csv: of each
\* of its rows the _key and the TMDB_ID (Missing when the cell is empty).
\* enr records the enrichment a pass has run.
NoEnr ==
  [op |-> "none", before |-> <<>>, selected |-> <<>>, looked |-> <<>>,
   count |-> 0, saved |-> FALSE, found |-> <<>>,
   only_missing |-> FALSE]

\* a pass without enrichment
NoEnrich == UNCHANGED <<detailed, enr>>

\* the table load_database holds in st.cache_data, if any
NoCache == [filled |-> FALSE, df |-> <<>>]

\* a handler that cleared the cache and one that did not
CacheAfter_keeps(c) == cache' = c

\* load_database.clear() follows the write of a manual add (line 1549), of
\* a bulk import (line 1428) and of a rating correction (line 1493); c is
\* the cache the handler found
CacheAfter(c) ==
  cache' = IF last'.outcome \in {"saved", "imported", "fixed"} THEN NoCache
           ELSE c

\* sequences over S of length 1..n
SeqsUpTo(S, n) == UNION {[1..m -> S] : m \in 1..n}

(***************************************************************************)
(* _append_film_row: the values of the row as one line of the file.        *)
(***************************************************************************)
\* str(v).replace('\n',' ').replace('\r',' ').replace(';', ',')
Sanitize(s) ==
  [j \in 1..Len(s) |->
     IF s[j] \in {"\n", "\r"} THEN " " ELSE IF s[j] = ";" THEN "," ELSE s[j]]

\* the line has the ten fields of the fixed header; under a header that
\* also has _key it is one field short, which read_csv reads as NaN
append_film_row(exists, rows, row_dict) ==
  (IF exists THEN rows ELSE <<>>)
    \o <<[row_dict EXCEPT !.Name = Sanitize(@),
                          !.Key = IF exists /\ HasKeyCol(rows)
                                  THEN KeyNaN ELSE NoKeyCol]>>

(***************************************************************************)
(* Manual add: show_add_film, "if submitted:" (lines 1514-1553).           *)
(***************************************************************************)
\* a duplicate test on the title alone
IsDuplicate_ignore_year(current_df, name, year) ==
  \E j \in 1..Len(current_df) :
     Lower(Strip(StrOfName(current_df[j].Name))) = Lower(Strip(name))

\* the duplicate test of lines 1524-1525 on the table read
IsDuplicate(current_df, name, year) ==
  \E j \in 1..Len(current_df) :
     /\ Lower(Strip(StrOfName(current_df[j].Name))) = Lower(Strip(name))
     /\ LET y == YearNumeric(current_df[j].Year)
        IN ~IsNa(y) /\ y.f = 0 /\ y.i = year

manual_row(name, year, duration, rating10) ==
  [Name |-> Strip(name),
   Year |-> TxtInt(year),
   Rating |-> fmt_simplified(simplify_rating_10(Num(rating10))),
   R10 |-> Rating10Str(rating10),
   Duration |-> TxtInt(duration),
   Greatness |-> IF rating10 >= GreatThreshold THEN 1 ELSE 0,
   Key |-> NoKeyCol]

ManualAdd(name, year, duration, rating10, allow_duplicate, readOk) ==
  LET current_df == IF readOk THEN read_csv(file) ELSE <<>>
      duplicate == /\ current_df # <<>>
                   /\ ~allow_duplicate
                   /\ IsDuplicate(current_df, name, year)
      row == manual_row(name, year, duration, rating10)
      rec == [NoOp EXCEPT !.op = "manual", !.before = Store,
                          !.readOk = readOk, !.name = name, !.year = year,
                          !.allow = allow_duplicate]
  IN /\ last.op = "none"
     /\ readOk => fileExists
     /\ UNCHANGED probe
     /\ IF Strip(name) = <<>>
        THEN /\ last' = [rec EXCEPT !.outcome = "title_required"]
             /\ UNCHANGED <<fileExists, file>>
        ELSE IF duplicate
        THEN /\ last' = [rec EXCEPT !.outcome = "duplicate"]
             /\ UNCHANGED <<fileExists, file>>
        ELSE /\ (IF fileExists THEN Len(file) ELSE 0) < MaxRows
             /\ fileExists' = TRUE
             /\ file' = append_film_row(fileExists, file, row)
             /\ last' = [rec EXCEPT !.outcome = "saved", !.row = row]

(***************************************************************************)
(* Bulk import: show_add_film, "if confirmed:" (lines 1392-1432).  prep is *)
(* the table _prepare_rows made of the upload before the form (line 1386). *)
(***************************************************************************)
BulkWrite(res, prep, base, dup_policy, readOk) ==
  /\ Len(res.out) <= MaxRows
  /\ fileExists' = TRUE
  /\ file' = to_csv(res.out)
  /\ last' = [NoOp EXCEPT !.op = "bulk", !.outcome = "imported",
                          !.policy = dup_policy, !.readOk = readOk,
                          !.before = Store, !.base = base, !.prep = prep,
                          !.out = res.out, !.counts = res.counts]

BulkCompute(prep, base, dup_policy, readOk) ==
  BulkWrite(import_policy(dup_policy, base, prep), prep, base, dup_policy, readOk)

BulkImport(prep, dup_policy, readOk) ==
  /\ last.op = "none"
  /\ readOk => fileExists
  /\ BulkCompute(prep, IF readOk THEN read_csv(file) ELSE <<>>, dup_policy, readOk)
  /\ UNCHANGED probe

(***************************************************************************)
(* Rating audit and correction (lines 1472-1496).                          *)
(***************************************************************************)
MismatchMask(df_a) ==
  {j \in 1..Len(df_a) :
     LET expected == simplify_rating_10(ToNumericTenths(AsStrComma(df_a[j].R10)))
         simplified_current == ToNumericTenths(AsStrComma(df_a[j].Rating))
     IN expected # Missing /\ simplified_current # Missing
        /\ expected # simplified_current}

\* The button "Correggi tutte le discrepanze" is drawn inside the block of
\* the button "Analizza rating" (line 1489 inside line 1472).  A button is
\* True only in the pass its own click starts, so in a pass where the outer
\* button is True the inner one is False.
InnerButton == {FALSE}

AuditRatings(readOk, fix_btn) ==
  LET df_a == read_csv(file)
      mask == MismatchMask(df_a)
      fixed == [j \in 1..Len(df_a) |->
                  IF j \in mask
                  THEN [df_a[j] EXCEPT !.Rating = fmt_simplified(
                          simplify_rating_10(ToNumericTenths(AsStrComma(df_a[j].R10))))]
                  ELSE df_a[j]]
      rec == [NoOp EXCEPT !.op = "audit", !.before = Store, !.readOk = readOk]
  IN /\ last.op = "none"
     /\ readOk => fileExists
     /\ UNCHANGED <<probe, detailed, enr>>
     /\ IF ~readOk
        THEN /\ last' = [rec EXCEPT !.outcome = "error"]
             /\ UNCHANGED <<fileExists, file>>
        ELSE IF mask = {}
        THEN /\ last' = [rec EXCEPT !.outcome = "no_mismatch", !.base = df_a]
             /\ UNCHANGED <<fileExists, file>>
        ELSE IF ~fix_btn
        THEN /\ last' = [rec EXCEPT !.outcome = "mismatches_shown",
                                    !.base = df_a,
                                    !.out = SelectSeq(df_a,
                                              LAMBDA r : \E j \in mask : df_a[j] = r)]
             /\ UNCHANGED <<fileExists, file>>
        ELSE /\ file' = to_csv(fixed)
             /\ UNCHANGED fileExists
             /\ last' = [rec EXCEPT !.outcome = "fixed", !.base = df_a,
                                    !.out = fixed]
     /\ CacheAfter(cache)

\* A click on "Correggi tutte le discrepanze", which the pass before has
\* drawn under the mismatches: the script runs again with fix_ratings_btn
\* True and audit_ratings_btn False, so the block of line 1472 is skipped
\* and with it lines 1489-1493.
ClickFix ==
  /\ last.op = "audit"
  /\ last.outcome = "mismatches_shown"
  /\ last' = [NoOp EXCEPT !.op = "fix_click", !.outcome = "not_run",
                          !.readOk = FALSE, !.before = Store,
                          !.base = last.base, !.out = last.out]
  /\ UNCHANGED <<fileExists, file, probe, detailed, enr, cache>>

(***************************************************************************)
(* Inputs of the store specification.                                      *)
(***************************************************************************)
ManualNames == {<<"a">>, <<"A", " ">>, <<" ">>}
ManualYears == {1999}
ManualRatings == {79}
ManualDurations == {90}

UploadRows ==
  [Name : {<<"a">>, <<" ", "A">>},
   Year : {TxtEmpty, TxtInt(1999)},
   R10 : {TxtComma(7, 9)},
   Duration : {TxtInt(90)}]

\* the tables _prepare_rows makes of the uploads of at most MaxUpload rows
Prepared(rows) == {prepare_rows(read_upload(u)) : u \in SeqsUpTo(rows, MaxUpload)}

PreparedUploads == Prepared(UploadRows)

\* a row of the file as exported from the spreadsheet
SeedRow ==
  [Name |-> <<"A", " ">>, Year |-> TxtInt(1999), Rating |-> TxtComma(3, 5),
   R10 |-> TxtComma(7, 9), Duration |-> TxtInt(90), Greatness |-> 1,
   Key |-> NoKeyCol]

Init ==
  /\ fileExists \in BOOLEAN
  /\ file \in (IF fileExists THEN {<<>>, <<SeedRow>>} ELSE {<<>>})
  /\ last = NoOp
  /\ probe = NoProbe
  /\ detailed = <<>>
  /\ enr = NoEnr
  /\ cache = NoCache

\* the pass ends: the handler's local tables are gone, the file stays
EndPass ==
  /\ last.op # "none"
  /\ last' = NoOp
  /\ UNCHANGED <<fileExists, file, probe, detailed, cache>>
  /\ enr' = NoEnr

\* a pass of the script begins: no handler has run in it yet
PassStart == last.op = "none"

Next ==
  \/ PassStart /\ \E name \in ManualNames, year \in ManualYears,
                     duration \in ManualDurations, rating10 \in ManualRatings,
                     allow \in BOOLEAN :
                    ManualAdd(name, year, duration, rating10, allow, fileExists)
                    /\ NoEnrich /\ CacheAfter(cache)
  \/ PassStart /\ \E prep \in PreparedUploads, dup_policy \in Policies :
                    BulkImport(prep, dup_policy, fileExists) /\ NoEnrich
                    /\ CacheAfter(cache)
  \/ \E fix_btn \in InnerButton : AuditRatings(fileExists, fix_btn)
  \/ EndPass

Spec == Init /\ [][Next]_vars

(***************************************************************************)
(* The audit on a base file as exported from the spreadsheet, where the    *)
(* simplified Rating was typed by hand: rows whose Rating is Rating 10 / 2 *)
(* rounded up, and rows without a Year.                                    *)
(***************************************************************************)
SeedRoundedUp == [SeedRow EXCEPT !.Name = <<"b">>, !.Rating = TxtInt(4)]

SeedNoYear == [SeedRow EXCEPT !.Name = <<"n">>, !.Year = TxtEmpty]

InitAudit ==
  /\ fileExists = TRUE
  /\ file \in SeqsUpTo({SeedRow, SeedRoundedUp, SeedNoYear}, MaxRows)
  /\ last = NoOp
  /\ probe = NoProbe
  /\ detailed = <<>>
  /\ enr = NoEnr
  /\ cache = NoCache

NextAudit ==
  \/ \E fix_btn \in InnerButton : AuditRatings(fileExists, fix_btn)
  \/ ClickFix
  \/ PassStart /\ \E name \in ManualNames, year \in ManualYears,
                     duration \in ManualDurations, rating10 \in ManualRatings,
                     allow \in BOOLEAN :
                    ManualAdd(name, year, duration, rating10, allow, fileExists)
                    /\ NoEnrich /\ CacheAfter(cache)
  \/ EndPass

SpecAudit == InitAudit /\ [][NextAudit]_vars

(***************************************************************************)
(* The store under wider inputs: titles that are blank or missing, ratings *)
(* that are missing or off the 0-10 scale, a missing duration, and a read  *)
(* of the existing base file that raises (the handlers catch it and go on  *)
(* with an empty table).                                                   *)
(***************************************************************************)
ManualNamesWide == ManualNames \cup {<<>>}

UploadRowsWide ==
  UploadRows \cup
  {[Name |-> <<" ">>, Year |-> TxtInt(1999), R10 |-> TxtComma(7, 9),
    Duration |-> TxtInt(90)],
   [Name |-> <<>>, Year |-> TxtInt(1999), R10 |-> TxtComma(7, 9),
    Duration |-> TxtInt(90)],
   [Name |-> <<"a">>, Year |-> TxtInt(1999), R10 |-> TxtInt(12),
    Duration |-> TxtInt(90)],
   [Name |-> <<"a">>, Year |-> TxtInt(1999), R10 |-> TxtEmpty,
    Duration |-> TxtEmpty]}

PreparedUploadsWide == Prepared(UploadRowsWide)

NextWide ==
  \/ PassStart /\ \E name \in ManualNamesWide, year \in ManualYears,
                     duration \in ManualDurations, rating10 \in ManualRatings,
                     allow \in BOOLEAN, readOk \in {fileExists, FALSE} :
                    ManualAdd(name, year, duration, rating10, allow, readOk)
                    /\ NoEnrich /\ CacheAfter(cache)
  \/ PassStart /\ \E prep \in PreparedUploadsWide, dup_policy \in Policies,
                     readOk \in {fileExists, FALSE} :
                    BulkImport(prep, dup_policy, readOk) /\ NoEnrich
                    /\ CacheAfter(cache)
  \/ \E readOk \in {fileExists, FALSE}, fix_btn \in InnerButton :
       AuditRatings(readOk, fix_btn)
  \/ EndPass

SpecWide == Init /\ [][NextWide]_vars

(***************************************************************************)
(* The rating functions alone: each path applied to one raw rating.        *)
(***************************************************************************)
MaxProbeTenths == 120   \* largest raw rating probed, in tenths

Idle ==
  /\ fileExists = FALSE
  /\ file = <<>>
  /\ last = NoOp
  /\ detailed = <<>>
  /\ enr = NoEnr
  /\ cache = NoCache

\* manual path: _simplify_rating_10 then _fmt_simplified
ProbeManualRating(r10) ==
  /\ probe = NoProbe
  /\ probe' = [fn |-> "manual_rating", cell |-> TxtEmpty, arg |-> r10,
               simplified |-> simplify_rating_10(r10),
               text |-> fmt_simplified(simplify_rating_10(r10))]
  /\ UNCHANGED <<fileExists, file, last, detailed, enr, cache>>

\* bulk path: the Rating 10 cell of an uploaded row through _prepare_rows
ProbeBulkRating(cell) ==
  /\ probe = NoProbe
  /\ probe' = [fn |-> "bulk_rating", cell |-> cell,
               arg |-> ToNumericTenths(AsStrComma(cell)),
               simplified |-> simp(ToNumericTenths(AsStrComma(cell))),
               text |-> prepare_row([Name |-> <<"a">>, Year |-> TxtEmpty,
                                     R10 |-> cell, Duration |-> TxtEmpty]).Rating]
  /\ UNCHANGED <<fileExists, file, last, detailed, enr, cache>>

\* the two formatters on one simplified value
ProbeFormat(val) ==
  /\ probe = NoProbe
  /\ probe' = [fn |-> "format", val |-> val,
               manual |-> fmt_simplified(val), bulk |-> fmt(val)]
  /\ UNCHANGED <<fileExists, file, last, detailed, enr, cache>>

\* simplified values: the tenths up to half the largest rating, and none
SimplifiedArgs == {Missing} \cup {Num(t) : t \in 0..(MaxRating10 \div 2)}

ManualRatingArgs == {Missing} \cup {Num(t) : t \in 0..MaxRating10}

BulkRatingCells ==
  {TxtEmpty} \cup {TxtInt(n) : n \in 0..(MaxProbeTenths \div 10)}
  \cup {TxtComma(t \div 10, t % 10) : t \in 0..MaxProbeTenths}
  \cup {TxtDot(t \div 10, t % 10) : t \in 0..MaxProbeTenths}

InitRating == Idle /\ probe = NoProbe

NextRating ==
  \/ probe = NoProbe /\ \E r10 \in ManualRatingArgs : ProbeManualRating(r10)
  \/ probe = NoProbe /\ \E cell \in BulkRatingCells : ProbeBulkRating(cell)
  \/ probe = NoProbe /\ \E val \in SimplifiedArgs : ProbeFormat(val)

SpecRating == InitRating /\ [][NextRating]_vars

(***************************************************************************)
(* Key construction alone: two records keyed at each of the three places.  *)
(***************************************************************************)
TitleChars == {"a", "A", " ", "|"}

Titles == UNION {[1..m -> TitleChars] : m \in 0..MaxTitleLen}

Keyed(place, a, b, ka, kb) ==
  [fn |-> "key", place |-> place, a |-> a, b |-> b, ka |-> ka, kb |-> kb]

\* rows of the loaded table: Year_Clean is a float or NaN
ProbeRowKey(a, b) ==
  /\ probe = NoProbe
  /\ probe' = Keyed("row_key", a, b, row_key(a), row_key(b))
  /\ UNCHANGED <<fileExists, file, last, detailed, enr, cache>>

\* rows of the prepared upload: Year is Int64 or NA
ProbeKbuild(a, b) ==
  /\ probe = NoProbe
  /\ probe' = Keyed("kbuild", a, b, kbuild(a), kbuild(b))
  /\ UNCHANGED <<fileExists, file, last, detailed, enr, cache>>

\* rows of the base table as read: Year is an int, a float or NaN
ProbeBaseKey(a, b) ==
  /\ probe = NoProbe
  /\ probe' = Keyed("base_key", a, b, base_key(a), base_key(b))
  /\ UNCHANGED <<fileExists, file, last, detailed, enr, cache>>

YearsFloat == {TxtEmpty, TxtDot(1999, 0), TxtDot(2020, 0)}
YearsInt64 == {TxtEmpty, TxtInt(1999), TxtInt(2020)}
YearsRead == {TxtEmpty, TxtInt(1999), TxtDot(2020, 0)}

InitKey == Idle /\ probe = NoProbe

NextKey ==
  \/ probe = NoProbe /\ \E a, b \in [Name : Titles, Year : YearsFloat] :
                          ProbeRowKey(a, b)
  \/ probe = NoProbe /\ \E a, b \in [Name : Titles, Year : YearsInt64] :
                          ProbeKbuild(a, b)
  \/ probe = NoProbe /\ \E a, b \in [Name : Titles, Year : YearsRead] :
                          ProbeBaseKey(a, b)

SpecKey == InitKey /\ [][NextKey]_vars

(***************************************************************************)
(* Writes that fail.  out.to_csv(CSV_BASE_FILE, ...) opens the file for    *)
(* writing, which empties it, and then writes the rows in order: an error  *)
(* while writing (a character cp1252 cannot encode, a full disk) leaves    *)
(* the rows written so far.  _append_film_row creates a missing file with  *)
(* its header and then appends the line; an error in either step leaves    *)
(* what the steps before it did.                                           *)
(***************************************************************************)
\* lines 1426-1432 when to_csv raises after `written` rows
BulkWriteFails(res, prep, base, dup_policy, readOk, written) ==
  /\ Len(res.out) <= MaxRows
  /\ written < Len(res.out)
  /\ fileExists' = TRUE
  /\ file' = SubSeq(to_csv(res.out), 1, written)
  /\ last' = [NoOp EXCEPT !.op = "bulk", !.outcome = "write_error",
                          !.policy = dup_policy, !.readOk = readOk,
                          !.before = Store, !.base = base, !.prep = prep,
                          !.out = res.out, !.counts = res.counts]

BulkImportWriteFails(prep, dup_policy, readOk, written) ==
  /\ last.op = "none"
  /\ readOk => fileExists
  /\ LET base == IF readOk THEN read_csv(file) ELSE <<>>
     IN BulkWriteFails(import_policy(dup_policy, base, prep), prep, base,
                       dup_policy, readOk, written)
  /\ UNCHANGED <<probe, detailed, enr, cache>>

\* lines 1547-1553 when _append_film_row raises: before anything is written
\* (header_done = FALSE) or after the header of a missing file was written
ManualAddWriteFails(name, year, duration, rating10, allow_duplicate, header_done) ==
  LET current_df == IF fileExists THEN read_csv(file) ELSE <<>>
      duplicate == /\ current_df # <<>>
                   /\ ~allow_duplicate
                   /\ IsDuplicate(current_df, name, year)
  IN /\ last.op = "none"
     /\ Strip(name) # <<>>
     /\ ~duplicate
     /\ header_done => ~fileExists
     /\ fileExists' = (fileExists \/ header_done)
     /\ file' = file
     /\ last' = [NoOp EXCEPT !.op = "manual", !.outcome = "save_error",
                             !.before = Store, !.readOk = fileExists,
                             !.name = name, !.year = year,
                             !.allow = allow_duplicate,
                             !.row = manual_row(name, year, duration, rating10)]
     /\ UNCHANGED <<probe, detailed, enr, cache>>

NextWriteFault ==
  \/ Next
  \/ PassStart /\ \E prep \in PreparedUploads, dup_policy \in Policies,
                     written \in 0..(MaxRows - 1) :
                    BulkImportWriteFails(prep, dup_policy, fileExists, written)
  \/ PassStart /\ \E name \in ManualNames, year \in ManualYears,
                     duration \in ManualDurations, rating10 \in ManualRatings,
                     allow \in BOOLEAN, header_done \in BOOLEAN :
                    ManualAddWriteFails(name, year, duration, rating10, allow,
                                        header_done)

SpecWriteFault == Init /\ [][NextWriteFault]_vars

(***************************************************************************)
(* load_database: the table every page but "Aggiungi Film" works on.       *)
(* .str of a column is defined for an object column only; on a numeric     *)
(* column it raises AttributeError, which the function's except catches.   *)
(***************************************************************************)
\* df['Rating 10'].str raises unless the column holds text (a column without
\* rows is an object column)
StrAccessorRaises(cells) == Len(cells) > 0 /\ ColDtype(cells) # "object"

\* pd.to_numeric(cell, errors='coerce') of a Year or Duration cell
to_numeric(c) == IF c.k \in {"int", "dot"} THEN Num(c.i) ELSE Missing

\* lines 141-144: the cleaned columns of one row of the table read
clean_row(r) ==
  [r EXCEPT !.Key = NoKeyCol] @@
  [Rating_Clean |-> ToNumericTenths(r.R10),
   Year_Clean |-> to_numeric(r.Year),
   Duration_Clean |-> to_numeric(r.Duration)]

\* load_database: [ok, df]; df is pd.DataFrame() after an exception
load_database(exists, rows, readOk) ==
  IF ~exists \/ ~readOk \/ StrAccessorRaises(Col(rows, "R10"))
  THEN [ok |-> FALSE, df |-> <<>>]
  ELSE [ok |-> TRUE,
        df |-> [j \in 1..Len(rows) |-> clean_row(read_csv(rows)[j])]]

\* a pass of main() up to line 189
LoadDatabase(readOk) ==
  /\ last.op = "none"
  /\ readOk => fileExists
  /\ LET res == load_database(fileExists, file, readOk)
     IN last' = [NoOp EXCEPT !.op = "load",
                             !.outcome = IF res.ok THEN "loaded" ELSE "load_error",
                             !.readOk = readOk, !.before = Store,
                             !.out = res.df]
  /\ UNCHANGED <<fileExists, file, probe, detailed, enr, cache>>

\* uploads whose ratings are written with a comma, as a whole number, or
\* not at all
UploadRowsLoad ==
  [Name : {<<"a">>, <<"b">>},
   Year : {TxtInt(1999)},
   R10 : {TxtComma(7, 9), TxtInt(8), TxtEmpty},
   Duration : {TxtInt(90)}]

PreparedUploadsLoad == Prepared(UploadRowsLoad)

NextLoad ==
  \/ PassStart /\ \E prep \in PreparedUploadsLoad, dup_policy \in Policies :
                    BulkImport(prep, dup_policy, fileExists) /\ NoEnrich
                    /\ CacheAfter(cache)
  \/ PassStart /\ \E readOk \in {fileExists, FALSE} : LoadDatabase(readOk)
  \/ EndPass

SpecLoad == Init /\ [][NextLoad]_vars

(***************************************************************************)
(* TMDb enrichment.  A lookup is a call of the TMDb service: whether it    *)
(* answers with a match is the environment's choice, found[j] for row j.   *)
(* An error, a timeout, a status other than 200 and an empty result all    *)
(* end in the empty payload (lines 1036-1037, 1046-1050, 1057-1062).       *)
(***************************************************************************)
MaxDetailed == 3   \* rows of the enrichment file

Min(a, b) == IF a <= b THEN a ELSE b

Idx(n) == [j \in 1..n |-> j]

\* _enrich_row_with_tmdb: the TMDB_ID of the payload, Missing for {}
enrich_row_with_tmdb(name, ok) ==
  IF Strip(StrOfName(name)) = <<>> THEN Missing
  ELSE IF ok THEN Num(1) ELSE Missing

DetRow(key, id) == [Key |-> key, TMDB_ID |-> id]

\* the two files on disk
Disk == [base |-> Store, detailed |-> detailed]

\* a save that goes to the base file
save_to_base_file(disk, df) ==
  [disk EXCEPT !.base = [exists |-> TRUE, rows |-> <<>>]]

\* save_detailed_database(df): to_csv on the enrichment file's path
save_detailed_database(disk, df) == [disk EXCEPT !.detailed = df]

\* enriched.drop_duplicates("_key") and the left merge on _key: the
\* TMDB_ID the first enriched row of that key carries, NaN without one
OldId(enriched, key) ==
  IF \E j \in 1..Len(enriched) : enriched[j].Key = key
  THEN enriched[CHOOSE j \in 1..Len(enriched) :
                  /\ enriched[j].Key = key
                  /\ \A i \in 1..(j - 1) : enriched[i].Key # key].TMDB_ID
  ELSE Missing

\* merged[to_process_mask].index.tolist()[:max_rows]
to_process_idx(merged_ids, only_missing, max_rows) ==
  LET masked == SelectSeq(Idx(Len(merged_ids)),
                          LAMBDA j : only_missing => merged_ids[j] = Missing)
  IN SubSeq(masked, 1, Min(max_rows, Len(masked)))

\* a loop that ends at the first lookup without a payload
RECURSIVE lookups_stop_at_failure(_, _, _)
lookups_stop_at_failure(rows, idxs, found) ==
  IF idxs = <<>> THEN <<>>
  ELSE LET p == enrich_row_with_tmdb(rows[idxs[1]].Name, found[idxs[1]])
       IN <<[idx |-> idxs[1], payload |-> p]>>
          \o (IF p = Missing THEN <<>>
              ELSE lookups_stop_at_failure(rows, Tail(idxs), found))

\* the loop over the selected rows: one lookup each, in order
RECURSIVE lookups(_, _, _)
lookups(rows, idxs, found) ==
  IF idxs = <<>> THEN <<>>
  ELSE <<[idx |-> idxs[1],
          payload |-> enrich_row_with_tmdb(rows[idxs[1]].Name,
                                           found[idxs[1]])]>>
       \o lookups(rows, Tail(idxs), found)

Looked(done) == [j \in 1..Len(done) |-> done[j].idx]

Updated(done) == SelectSeq(done, LAMBDA d : d.payload # Missing)

\* show_tmdb_metadata, "if do_enrich:" (lines 1170-1208), on the loaded
\* table base and the enrichment table enriched
enrich_now(base, enriched, only_missing, max_rows, found) ==
  LET keys == [j \in 1..Len(base) |-> row_key(base[j])]
      merged_ids == [j \in 1..Len(base) |-> OldId(enriched, keys[j])]
      idxs == to_process_idx(merged_ids, only_missing, max_rows)
      done == lookups(base, idxs, found)
      NewId(j) == IF \E d \in 1..Len(done) :
                       done[d].idx = j /\ done[d].payload # Missing
                  THEN Num(1) ELSE merged_ids[j]
  IN [out_df |-> [j \in 1..Len(base) |-> DetRow(keys[j], NewId(j))],
      selected |-> idxs,
      looked |-> Looked(done),
      updated_rows |-> Len(Updated(done))]

\* a pass of main() on the page "Metadati TMDb" with "Arricchisci ora"
\* clicked; main() shows the page only for a loaded table with rows
EnrichNow(only_missing, max_rows, found) ==
  LET res == load_database(fileExists, file, TRUE)
      run == enrich_now(res.df, detailed, only_missing, max_rows, found)
      disk == save_detailed_database(Disk, run.out_df)
  IN /\ last.op = "none"
     /\ res.ok /\ res.df # <<>>
     /\ Len(run.out_df) <= MaxDetailed
     /\ fileExists' = disk.base.exists
     /\ file' = disk.base.rows
     /\ detailed' = disk.detailed
     /\ last' = [NoOp EXCEPT !.op = "tmdb", !.outcome = "enriched",
                             !.readOk = TRUE, !.before = Store,
                             !.base = res.df]
     /\ enr' = [op |-> "tmdb_run", before |-> detailed,
                selected |-> run.selected, looked |-> run.looked,
                count |-> run.updated_rows, saved |-> TRUE, found |-> found,
                only_missing |-> only_missing]
     /\ UNCHANGED <<probe, cache>>

\* bulk import, "if do_enrich:" (lines 1434-1465): the first enrich_limit
\* rows of the upload are looked up, each payload is appended as a new row
bulk_enrich(det, prep, enrich_limit, found) ==
  LET idxs == Idx(Min(enrich_limit, Len(prep)))
      done == lookups(prep, idxs, found)
      upd == Updated(done)
  IN [det |-> det \o [d \in 1..Len(upd) |->
                        DetRow(kbuild(prep[upd[d].idx]), upd[d].payload)],
      selected |-> idxs,
      looked |-> Looked(done),
      enriched_count |-> Len(upd)]

BulkEnrich(prep, enrich_limit, found) ==
  LET run == bulk_enrich(detailed, prep, enrich_limit, found)
  IN /\ Len(run.det) <= MaxDetailed
     /\ detailed' = save_detailed_database(Disk, run.det).detailed
     /\ enr' = [op |-> "bulk_enrich", before |-> detailed,
                selected |-> run.selected, looked |-> run.looked,
                count |-> run.enriched_count, saved |-> TRUE, found |-> found,
                only_missing |-> FALSE]

\* the bulk import handler with "Arricchisci con TMDb" ticked and a key set
BulkImportEnrich(prep, dup_policy, readOk, enrich_limit, found) ==
  /\ BulkImport(prep, dup_policy, readOk)
  /\ CacheAfter(cache)
  /\ BulkEnrich(prep, enrich_limit, found)

\* manual add, "if enrich_now:" (lines 1556-1587): the file is saved only
\* when the lookup gave a payload
ManualEnrich(row, found) ==
  LET payload == enrich_row_with_tmdb(row.Name, found[1])
      updated == detailed \o <<DetRow(kbuild(row), payload)>>
  IN /\ payload # Missing => Len(updated) <= MaxDetailed
     /\ detailed' = IF payload # Missing
                    THEN save_detailed_database(Disk, updated).detailed
                    ELSE detailed
     /\ enr' = [op |-> "manual_enrich", before |-> detailed,
                selected |-> <<1>>, looked |-> <<1>>,
                count |-> IF payload # Missing THEN 1 ELSE 0,
                saved |-> payload # Missing, found |-> found,
                only_missing |-> FALSE]

\* the manual add handler with "Arricchisci subito" ticked and a key set:
\* the lines after the save are reached only when the row was saved
ManualAddEnrich(name, year, duration, rating10, allow_duplicate, readOk, found) ==
  /\ ManualAdd(name, year, duration, rating10, allow_duplicate, readOk)
  /\ CacheAfter(cache)
  /\ IF last'.outcome = "saved" THEN ManualEnrich(last'.row, found)
     ELSE NoEnrich

\* the answers of the service, one for each row a batch may select
Answers == [1..MaxRows -> BOOLEAN]

\* uploads of two titles of one year
UploadRowsEnrich ==
  [Name : {<<"a">>, <<"b">>},
   Year : {TxtInt(1999)},
   R10 : {TxtComma(7, 9)},
   Duration : {TxtInt(90)}]

PreparedUploadsEnrich == Prepared(UploadRowsEnrich)

ManualNamesEnrich == {<<"a">>, <<" ">>}

NextEnrich ==
  \/ PassStart /\ \E only_missing \in BOOLEAN, max_rows \in 1..MaxRows,
                     found \in Answers :
                    EnrichNow(only_missing, max_rows, found)
  \/ PassStart /\ \E prep \in PreparedUploadsEnrich,
                     enrich_limit \in 1..MaxUpload, found \in Answers :
                    BulkImportEnrich(prep, Permetti, fileExists,
                                     enrich_limit, found)
  \/ PassStart /\ \E name \in ManualNamesEnrich, year \in ManualYears,
                     duration \in ManualDurations, rating10 \in ManualRatings,
                     allow \in BOOLEAN, found \in Answers :
                    ManualAddEnrich(name, year, duration, rating10, allow,
                                    fileExists, found)
  \/ EndPass

SpecEnrich == Init /\ [][NextEnrich]_vars

(***************************************************************************)
(* The average rating the pages show for a table or a subset of it.  The   *)
(* argument is the subset's Rating_Clean column (tenths, Missing for NaN). *)
(* A shown value is the number sum / n, or the text "nan".                 *)
(***************************************************************************)
MaxGroup == 3   \* rows of a subset

\* col[col.notna()]
NotNa(col) == SelectSeq(col, LAMBDA r : r # Missing)

RECURSIVE SumOf(_)
SumOf(col) == IF col = <<>> THEN 0 ELSE col[1][1] + SumOf(Tail(col))

ShownNumber(sum, n) == [kind |-> "number", sum |-> sum, n |-> n]
ShownNaN == [kind |-> "nan", sum |-> 0, n |-> 0]

\* Series.mean(): NaN cells are skipped; the mean of no value is NaN
series_mean(col) ==
  IF NotNa(col) = <<>> THEN ShownNaN
  ELSE ShownNumber(SumOf(NotNa(col)), Len(NotNa(col)))

\* x['Rating_Clean'].mean() if len(x) > 0 else 0, x the rated rows
avg_rating(col) ==
  IF Len(NotNa(col)) > 0 THEN series_mean(NotNa(col)) ELSE ShownNumber(0, 1)

Shown(fn, col, shown) == [fn |-> fn, col |-> col, shown |-> shown]

\* show_dashboard, "Rating Medio"
ProbeDashboard(col) ==
  /\ probe = NoProbe
  /\ probe' = Shown("dashboard", col, avg_rating(col))
  /\ UNCHANGED <<fileExists, file, last, detailed, enr, cache>>

\* show_directors_analysis, one director of the ranking
ProbeDirector(col) ==
  /\ probe = NoProbe
  /\ probe' = Shown("director", col, avg_rating(col))
  /\ UNCHANGED <<fileExists, file, last, detailed, enr, cache>>

\* show_temporal_analysis, one year of yearly_stats
ProbeWatchYear(col) ==
  /\ probe = NoProbe
  /\ probe' = Shown("watch_year", col, series_mean(col))
  /\ UNCHANGED <<fileExists, file, last, detailed, enr, cache>>

\* the Rating_Clean columns of the subsets: a group has at least one row
RatingColumns == SeqsUpTo({Missing, Num(0), Num(60), Num(75)}, MaxGroup)

InitAggregate == Idle /\ probe = NoProbe

NextAggregate ==
  \/ probe = NoProbe /\ \E col \in RatingColumns : ProbeDashboard(col)
  \/ probe = NoProbe /\ \E col \in RatingColumns : ProbeDirector(col)
  \/ probe = NoProbe /\ \E col \in RatingColumns : ProbeWatchYear(col)

SpecAggregate == InitAggregate /\ [][NextAggregate]_vars

(***************************************************************************)
(* Director names (show_directors_analysis).  A director text is a         *)
(* sequence of words, each separated from the next by one blank; the word  *)
(* " " stands for a further blank, so <<" ">> is a text of blanks only and *)
(* <<"joel", " ", "coen">> has two blanks between its words.  NaNName is   *)
(* the missing cell.                                                       *)
(***************************************************************************)
MaxDirectorWords == 4   \* words of a director text
TopDirectors == 20

Sconosciuto == <<"Sconosciuto">>
JoelEthanCoen == <<"Joel", "&", "Ethan", "Coen">>

\* the dict collaborations, in its order
collaborations ==
  <<[key |-> <<"joel", "coen">>, value |-> JoelEthanCoen],
    [key |-> <<"ethan", "coen">>, value |-> JoelEthanCoen],
    [key |-> <<"joel", "&", "ethan", "coen">>, value |-> JoelEthanCoen],
    [key |-> <<"ethan", "&", "joel", "coen">>, value |-> JoelEthanCoen],
    [key |-> <<"coen", "brothers">>, value |-> JoelEthanCoen],
    [key |-> <<"fratelli", "coen">>, value |-> JoelEthanCoen]>>

\* a lower() that leaves the words as they are
words_as_typed(d) == d

\* director.lower()
director_lower(d) ==
  [j \in 1..Len(d) |->
     IF d[j] = "Joel" THEN "joel" ELSE IF d[j] = "Ethan" THEN "ethan"
     ELSE IF d[j] = "Coen" THEN "coen"
     ELSE IF d[j] = "Sconosciuto" THEN "sconosciuto" ELSE d[j]]

\* key in text
Contains(text, key) ==
  \E i \in 0..(Len(text) - Len(key)) : SubSeq(text, i + 1, i + Len(key)) = key

\* the loop over collaborations.items() from entry j on
RECURSIVE first_match(_, _, _)
first_match(lowered, director, j) ==
  IF j > Len(collaborations) THEN director
  ELSE IF Contains(lowered, collaborations[j].key) THEN collaborations[j].value
  ELSE first_match(lowered, director, j + 1)

normalize_director_name(director) ==
  IF director = NaNName \/ director = <<>> THEN Sconosciuto
  ELSE first_match(director_lower(Strip(director)), Strip(director), 1)

\* director_counts: value_counts() without the sentinel, the first 20
head(counts, n) ==
  IF Cardinality(counts) <= n THEN counts
  ELSE CHOOSE top \in SUBSET counts :
         /\ Cardinality(top) = n
         /\ \A t \in top, c \in counts \ top : t.count >= c.count

director_counts(normalized) ==
  head({[director |-> d,
         count |-> Cardinality({j \in 1..Len(normalized) : normalized[j] = d})] :
          d \in {normalized[j] : j \in 1..Len(normalized)} \ {Sconosciuto}},
       TopDirectors)

\* directors_list of the selection box
directors_list(normalized) ==
  {normalized[j] : j \in 1..Len(normalized)} \ {Sconosciuto}

\* normalize_director_name on one text, and on its own result
ProbeNormalize(d) ==
  /\ probe = NoProbe
  /\ probe' = [fn |-> "normalize", d |-> d,
               resolved |-> normalize_director_name(d),
               again |-> normalize_director_name(normalize_director_name(d))]
  /\ UNCHANGED <<fileExists, file, last, detailed, enr, cache>>

\* the page on a Director column (of films of 40 minutes or more)
ProbeDirectorsAnalysis(col) ==
  /\ probe = NoProbe
  /\ LET normalized == [j \in 1..Len(col) |-> normalize_director_name(col[j])]
     IN probe' = [fn |-> "directors_page", col |-> col,
                  normalized |-> normalized,
                  ranking |-> director_counts(normalized),
                  list |-> directors_list(normalized)]
  /\ UNCHANGED <<fileExists, file, last, detailed, enr, cache>>

DirectorWords ==
  {" ", "joel", "Joel", "ethan", "&", "coen", "brothers", "fratelli", "kubrick"}

DirectorTexts ==
  {NaNName, Sconosciuto, JoelEthanCoen}
  \cup UNION {[1..m -> DirectorWords] : m \in 0..MaxDirectorWords}

DirectorCells ==
  {NaNName, <<>>, <<" ">>, Sconosciuto, <<"kubrick">>, <<"Joel", "coen">>}

DirectorColumns == SeqsUpTo(DirectorCells, MaxGroup)

InitDirector == Idle /\ probe = NoProbe

NextDirector ==
  \/ probe = NoProbe /\ \E d \in DirectorTexts : ProbeNormalize(d)
  \/ probe = NoProbe /\ \E col \in DirectorColumns : ProbeDirectorsAnalysis(col)

SpecDirector == InitDirector /\ [][NextDirector]_vars

(***************************************************************************)
(* The line _append_film_row writes for a manual add, as characters, and   *)
(* the fields read_csv splits it into.  A number or a date is one          *)
(* character of the line.                                                  *)
(***************************************************************************)
MaxTextLen == 2   \* characters of a free-text field of the form

\* the header of line 1254
header ==
  <<"Name", "Year", "Rating", "Rating 10", "Duration", "Director",
    "Watched Date", "Tag Diario", "Greatness", "Top">>

\* the dict row of lines 1535-1546, each value as str() gives it
row_dict(name, director, tag_diario) ==
  [h \in {header[j] : j \in 1..Len(header)} |->
     IF h = "Name" THEN Strip(name)
     ELSE IF h = "Year" THEN <<"1999">>
     ELSE IF h = "Rating" THEN <<"3,5">>
     ELSE IF h = "Rating 10" THEN <<"7,9">>
     ELSE IF h = "Duration" THEN <<"90">>
     ELSE IF h = "Director" THEN Strip(director)
     ELSE IF h = "Tag Diario" THEN Strip(tag_diario)
     ELSE IF h = "Greatness" THEN <<"1">>
     ELSE <<>>]

\* lines 1261-1268: the values in header order, sanitised
line_values(row) == [j \in 1..Len(header) |-> Sanitize(row[header[j]])]

\* ';'.join(values) + '\n'
RECURSIVE join(_)
join(values) ==
  IF values = <<>> THEN <<>>
  ELSE IF Len(values) = 1 THEN values[1]
  ELSE values[1] \o <<";">> \o join(Tail(values))

line_of(values) == join(values) \o <<"\n">>

\* read_csv's tokenizer on the last line of the file (sep=';', quotechar
\* '"', doublequote): a quote that opens a field starts a quoted field, in
\* which ';' and line breaks are text; the end of the file inside a quoted
\* field is a ParserError
RECURSIVE tokenize(_, _, _, _, _)
tokenize(chars, j, state, field, fields) ==
  IF j > Len(chars)
  THEN [ok |-> state # "quoted", fields |-> fields]
  ELSE LET c == chars[j] IN
    IF state = "start"
    THEN IF c = "\"" THEN tokenize(chars, j + 1, "quoted", <<>>, fields)
         ELSE IF c = ";" THEN tokenize(chars, j + 1, "start", <<>>,
                                       Append(fields, <<>>))
         ELSE IF c \in {"\n", "\r"}
              THEN tokenize(chars, j + 1, "eol", <<>>, Append(fields, <<>>))
         ELSE tokenize(chars, j + 1, "field", <<c>>, fields)
    ELSE IF state = "field"
    THEN IF c = ";" THEN tokenize(chars, j + 1, "start", <<>>,
                                  Append(fields, field))
         ELSE IF c \in {"\n", "\r"}
              THEN tokenize(chars, j + 1, "eol", <<>>, Append(fields, field))
         ELSE tokenize(chars, j + 1, "field", Append(field, c), fields)
    ELSE IF state = "quoted"
    THEN IF c = "\"" THEN tokenize(chars, j + 1, "quote_in_quoted", field, fields)
         ELSE tokenize(chars, j + 1, "quoted", Append(field, c), fields)
    ELSE IF state = "quote_in_quoted"
    THEN IF c = "\"" THEN tokenize(chars, j + 1, "quoted", Append(field, c), fields)
         ELSE IF c = ";" THEN tokenize(chars, j + 1, "start", <<>>,
                                       Append(fields, field))
         ELSE IF c \in {"\n", "\r"}
              THEN tokenize(chars, j + 1, "eol", <<>>, Append(fields, field))
         ELSE tokenize(chars, j + 1, "field", Append(field, c), fields)
    ELSE [ok |-> TRUE, fields |-> fields]

parse_line(chars) == tokenize(chars, 1, "start", <<>>, <<>>)

\* a manual add of a film with these free texts: the line written and the
\* fields read back
ProbeManualLine(name, director, tag_diario) ==
  /\ probe = NoProbe
  /\ Strip(name) # <<>>
  /\ LET values == line_values(row_dict(name, director, tag_diario))
     IN probe' = [fn |-> "manual_line", name |-> name, director |-> director,
                  tag_diario |-> tag_diario, values |-> values,
                  line |-> line_of(values),
                  parsed |-> parse_line(line_of(values))]
  /\ UNCHANGED <<fileExists, file, last, detailed, enr, cache>>

TextChars == {"a", " ", ";", "\n", "\""}

FreeTexts == UNION {[1..m -> TextChars] : m \in 0..MaxTextLen}

TagTexts == {<<>>, <<";">>, <<"\"">>}

InitLine == Idle /\ probe = NoProbe

NextLine ==
  probe = NoProbe /\ \E name \in FreeTexts, director \in FreeTexts,
                        tag_diario \in TagTexts :
                       ProbeManualLine(name, director, tag_diario)

SpecLine == InitLine /\ [][NextLine]_vars

(***************************************************************************)
(* Film in Compagnia (show_companions_analysis, lines 594-666): the films   *)
(* found for each companion.  A Tag Diario cell is its characters; a film   *)
(* of the table is known by its index.                                      *)
(***************************************************************************)
MaxFilms == 2   \* rows of the table shown

\* the dict of lines 595-615, in its order (names in ASCII letters)
companions ==
  <<[tag |-> <<"c", ":", "c">>, name |-> "Claudia (mamma)"],
    [tag |-> <<"c", ":", "a">>, name |-> "Ale (babbo)"],
    [tag |-> <<"c", ":", "p">>, name |-> "Priamo"],
    [tag |-> <<"c", ":", "r">>, name |-> "Rebecca"],
    [tag |-> <<"c", ":", "k">>, name |-> "Kenta"],
    [tag |-> <<"d", ":", "m">>, name |-> "Marco Grifo"],
    [tag |-> <<"c", ":", "m", "o">>, name |-> "Monica"],
    [tag |-> <<"d", ":", "p">>, name |-> "Priamo"],
    [tag |-> <<"c", ":", "a", "v">>, name |-> "Alessandro Valenti"],
    [tag |-> <<"d", ":", "r">>, name |-> "Rebecca"],
    [tag |-> <<"d", ":", "k">>, name |-> "Kenta"],
    [tag |-> <<"c", ":", "m">>, name |-> "Marco Grifo"],
    [tag |-> <<"d", ":", "l">>, name |-> "Leonardo Romagnoli"],
    [tag |-> <<"c", ":", "l">>, name |-> "Leonardo Romagnoli"],
    [tag |-> <<"c", ":", "d">>, name |-> "Dario"],
    [tag |-> <<"d", ":", "s", "m">>, name |-> "Simone Malaspina"],
    [tag |-> <<"c", ":", "s", "m">>, name |-> "Simone Malaspina"],
    [tag |-> <<"d", ":", "a", "v">>, name |-> "Alessandro Valenti"],
    [tag |-> <<"d", ":", "d">>, name |-> "Dario"]>>

\* df[tag_column].astype(str).str.contains(tag, case=False, na=False)
str_contains(cell, tag) ==
  Contains(Lower(StrOfName(cell)), Lower(tag))

\* films = df[mask]: the rows found, each with its index
films_with(df, tag) ==
  LET mask == {j \in 1..Len(df) : str_contains(df[j].Tag, tag)}
  IN [k \in 1..Cardinality(mask) |->
        LET j == CHOOSE j \in mask : Cardinality({i \in mask : i < j}) = k - 1
        IN [idx |-> j, row |-> df[j]]]

\* drop_duplicates(): of rows with equal values the first is kept
drop_duplicates(films) ==
  LET keep == {k \in 1..Len(films) :
                 \A i \in 1..(k - 1) : films[i].row # films[k].row}
  IN [n \in 1..Cardinality(keep) |->
        films[CHOOSE k \in keep : Cardinality({i \in keep : i < k}) = n - 1]]

\* the loop of lines 620-630 over the first n entries of the dict: the
\* films collected for the companion name
RECURSIVE companion_films(_, _, _)
companion_films(df, name, n) ==
  IF n = 0 THEN <<>>
  ELSE LET sofar == companion_films(df, name, n - 1)
           films == films_with(df, companions[n].tag)
       IN IF companions[n].name = name /\ films # <<>>
          THEN drop_duplicates(sofar \o films)
          ELSE sofar

\* companion_counts of line 656, before the sort for display
companion_counts(df) ==
  {[name |-> nm, films |-> companion_films(df, nm, Len(companions))] :
     nm \in {companions[j].name : j \in 1..Len(companions)}}

\* the page on a table
ProbeCompanions(df) ==
  /\ probe = NoProbe
  /\ probe' = [fn |-> "companions", df |-> df,
               counts |-> {c \in companion_counts(df) : c.films # <<>>}]
  /\ UNCHANGED <<fileExists, file, last, detailed, enr, cache>>

\* tags written in a cell, one or two, with a blank between them
TagTokens ==
  {<<"c", ":", "m", "o">>, <<"c", ":", "m">>, <<"c", ":", "p">>,
   <<"d", ":", "p">>}

TagCells ==
  {NaNName} \cup TagTokens
  \cup {t \o <<" ">> \o u : t \in TagTokens, u \in TagTokens}

FilmRows == [Name : {<<"a">>, <<"b">>}, Tag : TagCells]

InitCompanion == Idle /\ probe = NoProbe

NextCompanion ==
  probe = NoProbe /\ \E df \in SeqsUpTo(FilmRows, MaxFilms) : ProbeCompanions(df)

SpecCompanion == InitCompanion /\ [][NextCompanion]_vars

(***************************************************************************)
(* The script from its top (main, lines 177-228): every pass calls          *)
(* load_database, which st.cache_data answers from its cache when it holds *)
(* a table, and returns before the menu when the table is empty.           *)
(***************************************************************************)
\* @st.cache_data: the value load_database returns in this pass
cached_load(c, exists, rows) ==
  IF c.filled THEN c.df ELSE load_database(exists, rows, exists).df

\* the cache after the call
cache_filled(c, exists, rows) ==
  [filled |-> TRUE, df |-> cached_load(c, exists, rows)]

\* lines 185-189 when the table is empty: the message, and return
MainNoDatabase(rec) ==
  /\ last' = [rec EXCEPT !.outcome = "no_database", !.before = Store]
  /\ cache' = cache_filled(cache, fileExists, file)
  /\ UNCHANGED <<fileExists, file, probe, detailed, enr>>

\* a pass that shows one of the pages that only read the table
MainView ==
  LET df == cached_load(cache, fileExists, file)
      rec == [NoOp EXCEPT !.op = "main"]
  IN /\ last.op = "none"
     /\ IF df = <<>> THEN MainNoDatabase(rec)
        ELSE /\ last' = [rec EXCEPT !.outcome = "shown", !.before = Store,
                                    !.out = df]
             /\ cache' = cache_filled(cache, fileExists, file)
             /\ UNCHANGED <<fileExists, file, probe, detailed, enr>>

\* a pass with "Aggiungi Film" chosen and the manual form submitted
MainManualAdd(name, year, duration, rating10, allow_duplicate) ==
  LET df == cached_load(cache, fileExists, file)
      rec == [NoOp EXCEPT !.op = "manual", !.name = name, !.year = year,
                          !.allow = allow_duplicate]
  IN /\ last.op = "none"
     /\ IF df = <<>> THEN MainNoDatabase(rec)
        ELSE /\ ManualAdd(name, year, duration, rating10, allow_duplicate,
                          fileExists)
             /\ NoEnrich
             /\ CacheAfter(cache_filled(cache, fileExists, file))

\* a pass with "Aggiungi Film" chosen and "Importa nel CSV base" clicked
MainBulkImport(prep, dup_policy) ==
  LET df == cached_load(cache, fileExists, file)
      rec == [NoOp EXCEPT !.op = "bulk", !.policy = dup_policy, !.prep = prep]
  IN /\ last.op = "none"
     /\ IF df = <<>> THEN MainNoDatabase(rec)
        ELSE /\ BulkImport(prep, dup_policy, fileExists)
             /\ NoEnrich
             /\ CacheAfter(cache_filled(cache, fileExists, file))

NextMain ==
  \/ MainView
  \/ PassStart /\ \E name \in ManualNames, year \in ManualYears,
                     duration \in ManualDurations, rating10 \in ManualRatings,
                     allow \in BOOLEAN :
                    MainManualAdd(name, year, duration, rating10, allow)
  \/ PassStart /\ \E prep \in PreparedUploadsEnrich, dup_policy \in Policies :
                    MainBulkImport(prep, dup_policy)
  \/ EndPass

SpecMain == Init /\ [][NextMain]_vars

(***************************************************************************)
(* Two sessions on one base file.  Streamlit runs each session's script in *)
(* its own thread and the handlers take no lock, so the read of a handler  *)
(* and its write are separate steps between which another session's        *)
(* handler may run.  last holds what the sessions in flight have read:     *)
(*   mid       the file after the other session's write                    *)
(*   other     the rows the other session wrote                            *)
(*   pending   the rows of manual submissions that passed the duplicate    *)
(*             test and are not yet appended                               *)
(*   checked   how many submissions passed the test                        *)
(*   appended  the rows appended, in order                                 *)
(***************************************************************************)
\* bulk import of the first session up to line 1404: the base file is read
RaceBulkRead(prep, dup_policy) ==
  /\ last.op = "none"
  /\ last' = [NoOp EXCEPT !.op = "bulk_race", !.outcome = "read",
                          !.policy = dup_policy, !.readOk = fileExists,
                          !.before = Store, !.mid = Store,
                          !.base = IF fileExists THEN read_csv(file) ELSE <<>>,
                          !.prep = prep]
  /\ UNCHANGED <<fileExists, file, probe, detailed, enr, cache>>

\* meanwhile another session's manual add runs from its read to its append
RaceOtherManualAdd(name, year, duration, rating10, allow_duplicate) ==
  LET current_df == IF fileExists THEN read_csv(file) ELSE <<>>
      duplicate == /\ current_df # <<>>
                   /\ ~allow_duplicate
                   /\ IsDuplicate(current_df, name, year)
      row == manual_row(name, year, duration, rating10)
      written == append_film_row(fileExists, file, row)
  IN /\ last.op = "bulk_race" /\ last.outcome = "read" /\ last.other = <<>>
     /\ Strip(name) # <<>>
     /\ ~duplicate
     /\ Len(written) <= MaxRows
     /\ fileExists' = TRUE
     /\ file' = written
     /\ last' = [last EXCEPT !.other = <<row>>,
                             !.mid = [exists |-> TRUE, rows |-> written]]
     /\ cache' = NoCache
     /\ UNCHANGED <<probe, detailed, enr>>

\* meanwhile another session's bulk import runs from its read to its write
RaceOtherBulkImport(prep, dup_policy) ==
  LET res == import_policy(dup_policy,
                           IF fileExists THEN read_csv(file) ELSE <<>>, prep)
      written == to_csv(res.out)
      fresh == res.counts.added + res.counts.updated
  IN /\ last.op = "bulk_race" /\ last.outcome = "read" /\ last.other = <<>>
     /\ Len(written) <= MaxRows
     /\ fresh > 0
     /\ fileExists' = TRUE
     /\ file' = written
     /\ last' = [last EXCEPT
                   !.other = SubSeq(written, Len(written) - fresh + 1, Len(written)),
                   !.mid = [exists |-> TRUE, rows |-> written]]
     /\ cache' = NoCache
     /\ UNCHANGED <<probe, detailed, enr>>

\* a write that reads the base file again before it builds the output
RaceBulkWrite_rereads ==
  LET res == import_policy(last.policy,
                           IF fileExists THEN read_csv(file) ELSE <<>>,
                           last.prep)
  IN /\ last.op = "bulk_race" /\ last.outcome = "read"
     /\ Len(res.out) <= MaxRows
     /\ fileExists' = TRUE
     /\ file' = to_csv(res.out)
     /\ last' = [last EXCEPT !.outcome = "imported", !.out = res.out,
                             !.counts = res.counts]
     /\ cache' = NoCache
     /\ UNCHANGED <<probe, detailed, enr>>

\* the first session goes on, lines 1405-1429: the output is built from the
\* table it read and written over the file
RaceBulkWrite ==
  LET res == import_policy(last.policy, last.base, last.prep)
  IN /\ last.op = "bulk_race" /\ last.outcome = "read"
     /\ Len(res.out) <= MaxRows
     /\ fileExists' = TRUE
     /\ file' = to_csv(res.out)
     /\ last' = [last EXCEPT !.outcome = "imported", !.out = res.out,
                             !.counts = res.counts]
     /\ cache' = NoCache
     /\ UNCHANGED <<probe, detailed, enr>>

\* a manual submission without "Permetti duplicato", lines 1514-1528: the
\* file is read and the duplicate test passes
RaceManualCheck(name, year, duration, rating10) ==
  LET current_df == IF fileExists THEN read_csv(file) ELSE <<>>
      row == manual_row(name, year, duration, rating10)
      rec == IF last.op = "none"
             THEN [NoOp EXCEPT !.op = "manual_race", !.outcome = "checking",
                               !.before = Store]
             ELSE last
  IN /\ last.op \in {"none", "manual_race"}
     /\ last.checked < 2
     /\ Strip(name) # <<>>
     /\ ~(current_df # <<>> /\ IsDuplicate(current_df, name, year))
     /\ last' = [rec EXCEPT !.pending = Append(@, row),
                            !.checked = @ + 1,
                            !.outcome = IF last.op = "manual_race"
                                           /\ last.appended = <<>>
                                        THEN "both_checked_first" ELSE @]
     /\ UNCHANGED <<fileExists, file, probe, detailed, enr, cache>>

Without(seq, k) == SubSeq(seq, 1, k - 1) \o SubSeq(seq, k + 1, Len(seq))

\* an append that tests for a duplicate again and drops the row
RaceManualAppend_rechecks(k) ==
  LET current_df == IF fileExists THEN read_csv(file) ELSE <<>>
      dup == \E j \in 1..Len(current_df) :
               kbuild(current_df[j]) = kbuild(last.pending[k])
  IN /\ last.op = "manual_race"
     /\ k \in 1..Len(last.pending)
     /\ (IF fileExists THEN Len(file) ELSE 0) < MaxRows
     /\ fileExists' = TRUE
     /\ file' = IF dup THEN file
                ELSE append_film_row(fileExists, file, last.pending[k])
     /\ last' = [last EXCEPT !.pending = Without(@, k),
                             !.appended = Append(@, last.pending[k])]
     /\ cache' = NoCache
     /\ UNCHANGED <<probe, detailed, enr>>

\* the submission that passed the test as k-th goes on, lines 1547-1550
RaceManualAppend(k) ==
  /\ last.op = "manual_race"
  /\ k \in 1..Len(last.pending)
  /\ (IF fileExists THEN Len(file) ELSE 0) < MaxRows
  /\ fileExists' = TRUE
  /\ file' = append_film_row(fileExists, file, last.pending[k])
  /\ last' = [last EXCEPT !.pending = Without(@, k),
                          !.appended = Append(@, last.pending[k])]
  /\ cache' = NoCache
  /\ UNCHANGED <<probe, detailed, enr>>

\* the other session uploads a file of one row
OtherUploads == {prep \in PreparedUploadsEnrich : Len(prep) = 1}

NextRace ==
  \/ PassStart /\ \E prep \in PreparedUploadsEnrich, dup_policy \in Policies :
                    RaceBulkRead(prep, dup_policy)
  \/ \E name \in ManualNames, year \in ManualYears,
        duration \in ManualDurations, rating10 \in ManualRatings,
        allow \in BOOLEAN :
       RaceOtherManualAdd(name, year, duration, rating10, allow)
  \/ \E prep \in OtherUploads, dup_policy \in Policies :
       RaceOtherBulkImport(prep, dup_policy)
  \/ RaceBulkWrite
  \/ \E name \in ManualNames, year \in ManualYears,
        duration \in ManualDurations, rating10 \in ManualRatings :
       RaceManualCheck(name, year, duration, rating10)
  \/ \E k \in 1..2 : RaceManualAppend(k)
  \/ EndPass

SpecRace == Init /\ [][NextRace]_vars

(***************************************************************************)
(* Vocabulary of the properties: what the specification calls a title, a   *)
(* key and a row's fields, said without the program's own functions.       *)
(***************************************************************************)
\* s without its leading and trailing spaces
Trimmed(s) ==
  LET inked == {j \in 1..Len(s) : s[j] # " "}
  IN IF inked = {} THEN <<>>
     ELSE SubSeq(s, CHOOSE j \in inked : \A h \in inked : j <= h,
                    CHOOSE j \in inked : \A h \in inked : j >= h)

SameLetter(c, d) == c = d \/ {c, d} \in {{"a", "A"}, {"b", "B"}, {"n", "N"}}

\* two titles that differ at most in letter case and surrounding whitespace
SameTitle(s, t) ==
  /\ Len(Trimmed(s)) = Len(Trimmed(t))
  /\ \A j \in 1..Len(Trimmed(s)) : SameLetter(Trimmed(s)[j], Trimmed(t)[j])

\* the number a Year or Duration cell stands for, Missing when it has none
CellInt(c) == IF c.k \in {"int", "dot"} THEN Num(c.i) ELSE Missing

\* a cell up to the way a number is written ("1999" and "1999.0", "" and
\* "nan" for no value)
CellVal(c) ==
  IF c.k \in {"empty", "nan"} THEN TxtEmpty
  ELSE IF c.k = "int" THEN TxtDot(c.i, 0)
  ELSE c

TitleOf(r) == IF r.Name = NaNName THEN <<>> ELSE r.Name

\* two rows with the same key: same title up to case and surrounding
\* whitespace, same year (or both without a year)
SameKey(r, q) ==
  SameTitle(TitleOf(r), TitleOf(q)) /\ CellInt(r.Year) = CellInt(q.Year)

KeyIn(r, rows) == \E j \in 1..Len(rows) : SameKey(r, rows[j])

\* the stored fields of a row, by value
RowVal(r) ==
  [Name |-> TitleOf(r), Year |-> CellVal(r.Year), Rating |-> CellVal(r.Rating),
   R10 |-> CellVal(r.R10), Duration |-> CellVal(r.Duration),
   Greatness |-> r.Greatness]

RowVals(rows) == [j \in 1..Len(rows) |-> RowVal(rows[j])]

\* how many rows of rows have the fields v
Copies(v, rows) == Cardinality({j \in 1..Len(rows) : RowVal(rows[j]) = v})

\* the rows of rows whose key is, or is not, a key of others, in order
Keyed_In(rows, others) ==
  LET Hit(r) == KeyIn(r, others) IN SelectSeq(rows, Hit)

Keyed_NotIn(rows, others) ==
  LET Fresh(r) == ~KeyIn(r, others) IN SelectSeq(rows, Fresh)

IsImport(policy) == last.op = "bulk" /\ last.policy = policy

(***************************************************************************)
(* C1.  After a bulk import under Salta or Sovrascrivi, every row the base *)
(* file held before whose key is not a key of the incoming batch is in the *)
(* written file with the same fields, as many times as it was there;       *)
(* whether the import's read of the base file succeeded or raised.         *)
(* Fields are compared by value, so "1999" rewritten as "1999.0" counts as *)
(* unchanged.                                                              *)
(***************************************************************************)
C1_UntouchedBaseRowsKept ==
  (IsImport(Salta) \/ IsImport(Sovrascrivi)) =>
    \A j \in 1..Len(last.before.rows) :
       ~KeyIn(last.before.rows[j], last.prep) =>
         Copies(RowVal(last.before.rows[j]), file)
           >= Copies(RowVal(last.before.rows[j]), last.before.rows)

\* the rows the base file held when the handler ran
OldRows == last.before.rows

(***************************************************************************)
(* C2.  A bulk import under Salta writes the base rows, unchanged and in   *)
(* their order, followed by exactly the incoming rows whose key (title up  *)
(* to case and surrounding whitespace, year) is the key of no base row, in *)
(* their order; it reports added = rows appended, skipped = incoming rows  *)
(* dropped, updated = 0.  Rows are compared by value.                      *)
(***************************************************************************)
C2_SkipImport ==
  IsImport(Salta) =>
    /\ RowVals(file) = RowVals(OldRows) \o RowVals(Keyed_NotIn(last.prep, OldRows))
    /\ last.counts.added = Len(Keyed_NotIn(last.prep, OldRows))
    /\ last.counts.skipped = Len(Keyed_In(last.prep, OldRows))
    /\ last.counts.updated = 0

\* an import under Salta that dropped an incoming row and appended another
C2_SkipImport_Reached ==
  /\ IsImport(Salta)
  /\ OldRows # <<>>
  /\ Keyed_In(last.prep, OldRows) # <<>>
  /\ Keyed_NotIn(last.prep, OldRows) # <<>>
  /\ Len(file) = Len(OldRows) + 1

C4_AllowDuplicatesImport ==
  IsImport(Permetti) =>
    /\ RowVals(file) = RowVals(OldRows) \o RowVals(last.prep)
    /\ last.counts.added = Len(last.prep)
    /\ last.counts.updated = 0
    /\ last.counts.skipped = 0

\* an import under Permetti duplicati of a row whose key the base held: the
\* file then holds two rows with that key
C4_AllowDuplicatesImport_Reached ==
  /\ IsImport(Permetti)
  /\ Keyed_In(last.prep, OldRows) # <<>>
  /\ \E j, k \in 1..Len(file) :
        j <= Len(OldRows) /\ k > Len(OldRows) /\ SameKey(file[j], file[k])

(***************************************************************************)
(* C5.  A manual add of a film with a non-blank title: when the            *)
(* allow-duplicate flag is off and a row of the base file has the film's   *)
(* key (same title up to case and surrounding whitespace, same year) the   *)
(* add is refused as a duplicate and the file is as it was; otherwise      *)
(* exactly one row, with the film's title and year, is appended and every  *)
(* row the file held is unchanged.  The reads of an existing base file     *)
(* succeed.                                                                *)
(***************************************************************************)
SubmittedKeyIn(rows) ==
  \E j \in 1..Len(rows) :
     /\ SameTitle(rows[j].Name, last.name)
     /\ CellInt(rows[j].Year) = Num(last.year)

C5_ManualAddDuplicate ==
  (last.op = "manual" /\ Trimmed(last.name) # <<>>) =>
    IF ~last.allow /\ SubmittedKeyIn(OldRows)
    THEN /\ last.outcome = "duplicate"
         /\ Store = last.before
    ELSE /\ last.outcome = "saved"
         /\ fileExists
         /\ Len(file) = Len(OldRows) + 1
         /\ SubSeq(file, 1, Len(OldRows)) = OldRows
         /\ SubmittedKeyIn(<<file[Len(file)]>>)

\* a manual add refused as a duplicate of a row whose title differs from the
\* submitted one in case or whitespace
C5_ManualAddDuplicate_Reached ==
  /\ last.op = "manual"
  /\ last.outcome = "duplicate"
  /\ \E j \in 1..Len(OldRows) :
        OldRows[j].Name # last.name /\ SameTitle(OldRows[j].Name, last.name)

(***************************************************************************)
(* C6.  No row of the base file has a Name that is empty after trimming,   *)
(* whatever manual adds and bulk imports were made; a manual submission    *)
(* with an empty or whitespace-only title is rejected and writes nothing.  *)
(***************************************************************************)
C6_TitleNeverEmpty ==
  /\ \A j \in 1..Len(file) : Trimmed(file[j].Name) # <<>>
  /\ (last.op = "manual" /\ Trimmed(last.name) = <<>>) =>
       (last.outcome = "title_required" /\ Store = last.before)

(***************************************************************************)
(* C7.  Every row of the base file with a non-empty Rating holds a         *)
(* multiple of 0.5 in [0, 5], and when its Rating 10 is a number r the     *)
(* Rating is r / 2 rounded down to a multiple of 0.5; whatever manual      *)
(* adds, bulk imports and rating corrections were made, for every numeric  *)
(* Rating 10 an uploaded file carries.  Values are in tenths.              *)
(***************************************************************************)
\* the number a cell stands for, in tenths; Missing when it has none
CellTenths(c) ==
  IF c.k \in {"empty", "nan"} THEN Missing ELSE Num(c.i * 10 + c.f)

\* s is r / 2 rounded down to a multiple of 0.5
IsHalfFloor(s, r) == s % 5 = 0 /\ 2 * s <= r /\ r < 2 * s + 10

C7_StoredRatingOnHalfScale ==
  \A j \in 1..Len(file) :
     CellTenths(file[j].Rating) # Missing =>
       /\ CellTenths(file[j].Rating)[1] \in {5 * h : h \in 0..10}
       /\ CellTenths(file[j].R10) # Missing =>
            IsHalfFloor(CellTenths(file[j].Rating)[1], CellTenths(file[j].R10)[1])

(***************************************************************************)
(* C8.  For every raw rating r in [0, 10], the manual-path simplifier and  *)
(* the bulk-path simplifier both return r / 2 rounded down (never to the   *)
(* nearest) to a multiple of 0.5, a value in [0, 5]: 7.9 gives 3.5, 8.0    *)
(* gives 4.0, 0.0 gives 0.0.  In tenths: the result is 5 * (r \div 10).    *)
(***************************************************************************)
RatingProbed == probe.fn \in {"manual_rating", "bulk_rating"}

C8_SimplifyRoundsDown ==
  (RatingProbed /\ probe.arg # Missing /\ probe.arg[1] \in 0..MaxRating10) =>
    /\ probe.simplified # Missing
    /\ probe.simplified[1] = 5 * (probe.arg[1] \div 10)
    /\ IsHalfFloor(probe.simplified[1], probe.arg[1])
    /\ probe.simplified[1] \in 0..50
    /\ probe.arg[1] = 79 => probe.simplified[1] = 35
    /\ probe.arg[1] = 80 => probe.simplified[1] = 40
    /\ probe.arg[1] = 0 => probe.simplified[1] = 0

\* the bulk path has simplified 7,9 (to 3.5, where rounding to the nearest
\* would give 4.0)
C8_SimplifyRoundsDown_Reached ==
  /\ probe.fn = "bulk_rating"
  /\ probe.cell = TxtComma(7, 9)
  /\ probe.simplified = Num(35)

(***************************************************************************)
(* C9.  A missing raw rating simplifies to missing, never to 0, and is     *)
(* written as an empty Rating field, on the manual path and on the bulk    *)
(* path.                                                                   *)
(***************************************************************************)
C9_MissingRatingStaysMissing ==
  (RatingProbed /\ probe.arg = Missing) =>
    (probe.simplified = Missing /\ probe.text = TxtEmpty)

\* the bulk path has prepared a row whose Rating 10 cell is empty
C9_MissingRatingStaysMissing_Reached ==
  /\ probe.fn = "bulk_rating"
  /\ probe.cell = TxtEmpty
  /\ probe.text = TxtEmpty

(***************************************************************************)
(* C10.  At each of the three places a key is built, two records get the   *)
(* same key exactly when their titles differ at most in letter case and    *)
(* surrounding whitespace and their years are the same (or both missing).  *)
(***************************************************************************)
C10_KeyInsensitiveAndInjective ==
  probe.fn = "key" =>
    ((probe.ka = probe.kb) <=>
       (/\ SameTitle(probe.a.Name, probe.b.Name)
        /\ CellInt(probe.a.Year) = CellInt(probe.b.Year)))

\* the key of a base row was built for two titles that differ in case and
\* whitespace, with a year, and came out the same
C10_KeyInsensitiveAndInjective_Reached ==
  /\ probe.fn = "key"
  /\ probe.place = "base_key"
  /\ probe.a.Name = <<"A", " ">>
  /\ probe.b.Name = <<" ", "a">>
  /\ probe.a.Year = TxtInt(1999)
  /\ probe.ka = probe.kb

(***************************************************************************)
(* C11.  When a write of the base file fails, the failure is reported and  *)
(* the data rows of the base file are afterwards either all the rows it    *)
(* held before or all the rows of the new content, never a part of them.   *)
(***************************************************************************)
C11_FailedWriteIsAtomic ==
  (last.outcome \in {"write_error", "save_error"}) =>
    \/ file = OldRows
    \/ last.op = "bulk" /\ file = to_csv(last.out)
    \/ last.op = "manual" /\ file = OldRows \o <<last.row>>

(***************************************************************************)
(* C12.  Loading the base table fails only when the file cannot be read,   *)
(* whatever its cells hold; a failed load gives an error and an empty      *)
(* table; a successful load gives every row of the file, each with its     *)
(* own rating, year and duration as numbers where they parse and missing   *)
(* where they do not.                                                      *)
(***************************************************************************)
C12_LoadToleratesCells ==
  (last.op = "load") =>
    /\ (last.outcome = "load_error") <=> ~(last.before.exists /\ last.readOk)
    /\ (last.outcome = "load_error") => last.out = <<>>
    /\ (last.outcome = "loaded") =>
         /\ Len(last.out) = Len(OldRows)
         /\ \A j \in 1..Len(OldRows) :
              /\ last.out[j].Rating_Clean = CellTenths(OldRows[j].R10)
              /\ last.out[j].Year_Clean = CellInt(OldRows[j].Year)
              /\ last.out[j].Duration_Clean = CellInt(OldRows[j].Duration)
              /\ TitleOf(last.out[j]) = TitleOf(OldRows[j])

(***************************************************************************)
(* C13.  The average rating shown for a table or subset is the mean of its *)
(* parseable ratings only; when it has none the average is shown as        *)
(* undefined: not as a number (so not as 0) and not as NaN.                *)
(***************************************************************************)
RatedOf(col) == {j \in 1..Len(col) : col[j] # Missing}

RECURSIVE SumOver(_, _)
SumOver(col, J) ==
  IF J = {} THEN 0
  ELSE LET j == CHOOSE x \in J : TRUE IN col[j][1] + SumOver(col, J \ {j})

C13_AverageOfNoRatingUndefined ==
  (probe.fn \in {"dashboard", "director", "watch_year"}) =>
    IF RatedOf(probe.col) = {}
    THEN probe.shown.kind \notin {"number", "nan"}
    ELSE /\ probe.shown.kind = "number"
         /\ probe.shown.sum = SumOver(probe.col, RatedOf(probe.col))
         /\ probe.shown.n = Cardinality(RatedOf(probe.col))

(***************************************************************************)
(* C14.  No enrichment changes the base file: after the TMDb run the base  *)
(* file is what it was before the pass, and after an import or a manual    *)
(* add with enrichment it is exactly what the import or the add wrote.     *)
(***************************************************************************)
C14_EnrichmentLeavesBase ==
  /\ (enr.op = "tmdb_run") => Store = last.before
  /\ (enr.op = "bulk_enrich") => fileExists /\ file = to_csv(last.out)
  /\ (enr.op = "manual_enrich") =>
       /\ fileExists
       /\ Len(file) = Len(OldRows) + 1
       /\ SubSeq(file, 1, Len(OldRows)) = OldRows
       /\ RowVal(file[Len(file)]) = RowVal(last.row)

\* a TMDb run over a base file with rows has written new enrichment
C14_EnrichmentLeavesBase_Reached ==
  /\ enr.op = "tmdb_run"
  /\ enr.count > 0
  /\ detailed # enr.before
  /\ file # <<>>

(***************************************************************************)
(* C15.  In a batch enrichment a lookup that fails skips that row only:    *)
(* every selected row is looked up, in order, the enrichment file is       *)
(* written, the reported count is the number of selected rows whose lookup *)
(* succeeded, and after the TMDb run each of those rows carries an id.     *)
(***************************************************************************)
BatchRows == IF enr.op = "tmdb_run" THEN last.base ELSE last.prep

LookupSucceeded(j) ==
  enr.found[j] /\ Trimmed(TitleOf(BatchRows[j])) # <<>>

C15_FailedLookupSkipsRowOnly ==
  (enr.op \in {"tmdb_run", "bulk_enrich"}) =>
    /\ enr.looked = enr.selected
    /\ enr.saved
    /\ enr.count = Cardinality({k \in 1..Len(enr.selected) :
                                  LookupSucceeded(enr.selected[k])})
    /\ (enr.op = "tmdb_run") =>
         /\ Len(detailed) = Len(last.base)
         /\ \A k \in 1..Len(enr.selected) :
              LookupSucceeded(enr.selected[k]) =>
                detailed[enr.selected[k]].TMDB_ID # Missing

\* a TMDb run in which a failed lookup was followed by a successful one
C15_FailedLookupSkipsRowOnly_Reached ==
  /\ enr.op = "tmdb_run"
  /\ Len(enr.selected) >= 2
  /\ ~LookupSucceeded(enr.selected[1])
  /\ LookupSucceeded(enr.selected[2])
  /\ enr.count = 1
  /\ detailed[enr.selected[2]].TMDB_ID # Missing

(***************************************************************************)
(* C16.  The audit flags exactly the rows whose stored Rating and Rating   *)
(* 10 are both present with the Rating different from Rating 10 / 2        *)
(* rounded down to a half; the correction writes the expected Rating into  *)
(* exactly the flagged rows and leaves every other row, every other field  *)
(* as written and the order of the rows as they were.                      *)
(***************************************************************************)
IsMismatch(r) ==
  /\ CellTenths(r.Rating) # Missing
  /\ CellTenths(r.R10) # Missing
  /\ ~IsHalfFloor(CellTenths(r.Rating)[1], CellTenths(r.R10)[1])

C16_AuditFlagsAndCorrects ==
  /\ (last.op = "audit" /\ last.readOk) =>
       /\ (last.outcome = "no_mismatch") =>
            \A j \in 1..Len(OldRows) : ~IsMismatch(OldRows[j])
       /\ (last.outcome = "mismatches_shown") =>
            RowVals(last.out) = RowVals(SelectSeq(OldRows, IsMismatch))
  /\ (last.op = "fix_click") =>
       /\ Len(file) = Len(OldRows)
       /\ \A j \in 1..Len(OldRows) :
            IF IsMismatch(OldRows[j])
            THEN /\ CellTenths(file[j].Rating) # Missing
                 /\ IsHalfFloor(CellTenths(file[j].Rating)[1],
                                CellTenths(OldRows[j].R10)[1])
                 /\ [file[j] EXCEPT !.Rating = TxtEmpty]
                      = [OldRows[j] EXCEPT !.Rating = TxtEmpty]
            ELSE file[j] = OldRows[j]

(***************************************************************************)
(* C17.  After an import under Salta or Sovrascrivi the file holds first   *)
(* the untouched base rows, in the order the base file had them, and then  *)
(* the appended incoming rows, in the order of the upload.                 *)
(***************************************************************************)
UntouchedRows ==
  IF last.policy = Sovrascrivi THEN Keyed_NotIn(OldRows, last.prep) ELSE OldRows

AppendedRows ==
  IF last.policy = Sovrascrivi THEN last.prep
  ELSE Keyed_NotIn(last.prep, OldRows)

NoDirector(d) == d = NaNName \/ Trimmed(d) = <<>>

C18_NoDirectorIsSconosciuto ==
  (probe.fn = "directors_page") =>
    /\ \A j \in 1..Len(probe.col) :
         NoDirector(probe.col[j]) => probe.normalized[j] = <<"Sconosciuto">>
    /\ \A r \in probe.ranking : r.director # <<"Sconosciuto">>
    /\ <<"Sconosciuto">> \notin probe.list

(***************************************************************************)
(* C19.  Resolving a director text twice gives what resolving it once      *)
(* gives, for every text.                                                  *)
(***************************************************************************)
C19_ResolveIdempotent ==
  (probe.fn = "normalize") => probe.again = probe.resolved

(***************************************************************************)
(* C20.  A director text that contains an alias phrase, whatever the case  *)
(* of its letters, resolves to the canonical label of that phrase; this    *)
(* holds for every phrase the text contains, so the result is the same in  *)
(* whatever order the entries are examined.                                *)
(***************************************************************************)
SameWord(w, v) ==
  w = v \/ {w, v} \in {{"Joel", "joel"}, {"Ethan", "ethan"}, {"Coen", "coen"}}

HasPhrase(text, phrase) ==
  \E i \in 0..(Len(text) - Len(phrase)) :
     \A j \in 1..Len(phrase) : SameWord(text[i + j], phrase[j])

AliasHits(text) ==
  {e \in {collaborations[j] : j \in 1..Len(collaborations)} :
     text # NaNName /\ HasPhrase(text, e.key)}

C20_AliasResolvesToCanonical ==
  (probe.fn = "normalize") =>
    \A e \in AliasHits(probe.d) : probe.resolved = e.value

\* a text in capitals and of several words that holds two alias phrases
C20_AliasResolvesToCanonical_Reached ==
  /\ probe.fn = "normalize"
  /\ Cardinality(AliasHits(probe.d)) >= 2
  /\ \E j \in 1..Len(probe.d) : probe.d[j] = "Joel"
  /\ \E j \in 1..Len(probe.d) : probe.d[j] = " "
  /\ probe.resolved = <<"Joel", "&", "Ethan", "Coen">>

(***************************************************************************)
(* C21.  The line a manual add writes has the ten values of the header in  *)
(* its order: the free texts with every semicolon turned into a comma and  *)
(* every line break into a blank, so the line holds nine semicolons and    *)
(* one line break at its end, and reading it back gives those ten fields.  *)
(***************************************************************************)
Cleaned(t) ==
  [j \in 1..Len(t) |->
     IF t[j] = ";" THEN "," ELSE IF t[j] \in {"\n", "\r"} THEN " " ELSE t[j]]

C21_ManualLineHasTenFields ==
  (probe.fn = "manual_line") =>
    /\ Len(probe.values) = 10
    /\ probe.values[1] = Cleaned(Strip(probe.name))
    /\ probe.values[6] = Cleaned(Strip(probe.director))
    /\ probe.values[8] = Cleaned(Strip(probe.tag_diario))
    /\ Cardinality({j \in 1..Len(probe.line) : probe.line[j] = ";"}) = 9
    /\ {j \in 1..Len(probe.line) : probe.line[j] \in {"\n", "\r"}}
         = {Len(probe.line)}
    /\ probe.parsed.ok
    /\ probe.parsed.fields = probe.values

(***************************************************************************)
(* C22.  For every simplified rating of the scale 0, 0.5, ..., 5.0 the     *)
(* manual-path formatter and the bulk-path formatter give the same text:   *)
(* the integer when the value has no fraction (4.0 gives "4"), else the    *)
(* decimal with a comma (3.5 gives "3,5").                                 *)
(***************************************************************************)
OnHalfScale(val) == val # Missing /\ val[1] \in 0..50 /\ val[1] % 5 = 0

C22_FormattersAgree ==
  (probe.fn = "format" /\ OnHalfScale(probe.val)) =>
    /\ probe.manual = probe.bulk
    /\ probe.manual =
         IF probe.val[1] % 10 = 0
         THEN [k |-> "int", i |-> probe.val[1] \div 10, f |-> 0]
         ELSE [k |-> "comma", i |-> probe.val[1] \div 10, f |-> 5]

\* both formatters have printed 4.0 as "4"
C22_FormattersAgree_Reached ==
  /\ probe.fn = "format"
  /\ probe.val = <<40>>
  /\ probe.manual = [k |-> "int", i |-> 4, f |-> 0]
  /\ probe.bulk = [k |-> "int", i |-> 4, f |-> 0]

\* the session whose import was overtaken: it has written after another
\* session's write landed between its read and its write
Overtaken == last.op = "bulk_race" /\ last.outcome = "imported" /\ last.other # <<>>

\* what the policy makes of the table the first session read and its batch
StaleResult ==
  IF last.policy = Salta
  THEN RowVals(OldRows) \o RowVals(Keyed_NotIn(last.prep, OldRows))
  ELSE IF last.policy = Sovrascrivi
  THEN RowVals(Keyed_NotIn(OldRows, last.prep)) \o RowVals(last.prep)
  ELSE RowVals(OldRows) \o RowVals(last.prep)

(***************************************************************************)
(* C23.  Last writer wins on the base file: when another session's write   *)
(* (a manual append or a bulk import) lands between a bulk import's read   *)
(* of the base file and its write, the file after the import's write is    *)
(* exactly what the policy makes of the table the import READ and its      *)
(* batch, whatever the other session wrote; a row the other session wrote  *)
(* whose fields are those of no row the import read and of no row of its   *)
(* batch is not in the file.                                               *)
(***************************************************************************)
C23_LastWriterWins ==
  Overtaken =>
    /\ RowVals(file) = StaleResult
    /\ \A j \in 1..Len(last.other) :
         (/\ Copies(RowVal(last.other[j]), OldRows) = 0
          /\ Copies(RowVal(last.other[j]), last.prep) = 0)
           => Copies(RowVal(last.other[j]), file) = 0

\* an overtaken import after which a row the other session had written, and
\* which the file held in between, is gone
C23_LastWriterWins_Reached ==
  /\ Overtaken
  /\ \E j \in 1..Len(last.other) :
       /\ Copies(RowVal(last.other[j]), last.mid.rows) > 0
       /\ Copies(RowVal(last.other[j]), file) = 0

\* two manual submissions of one key, without "Permetti duplicato", that both
\* passed the duplicate test before either appended, and have both appended
BothPassedFirst ==
  /\ last.op = "manual_race"
  /\ last.outcome = "both_checked_first"
  /\ Len(last.appended) = 2
  /\ SameKey(last.appended[1], last.appended[2])

(***************************************************************************)
(* C24.  Two manual submissions of the same (title, year) without the      *)
(* allow-duplicate flag can race: when both pass the duplicate test before *)
(* either appends, both append; the base file then holds the rows it held  *)
(* followed by the two submitted rows, so two rows with a key that no row  *)
(* had before, and neither submission overrode the test.                   *)
(***************************************************************************)
C24_DuplicateByRace ==
  BothPassedFirst =>
    /\ RowVals(file) = RowVals(OldRows) \o RowVals(last.appended)
    /\ ~KeyIn(last.appended[1], OldRows)
    /\ Cardinality({j \in 1..Len(file) : SameKey(file[j], last.appended[1])}) = 2

\* the race has happened: both passed the test on the same file, both
\* appended, and the file holds two rows of the submitted key
C24_DuplicateByRace_Reached ==
  /\ BothPassedFirst
  /\ last.pending = <<>>
  /\ Len(file) = Len(OldRows) + 2
  /\ SameKey(file[Len(file) - 1], file[Len(file)])

\* a bulk import that wrote its output
Imported == last.op = "bulk" /\ last.outcome = "imported"

(***************************************************************************)
(* C25.  For every bulk import, under each policy and for every base and   *)
(* incoming content (keys repeated in the base or in the batch included),  *)
(* the reported counts account for the rows: the number of rows written is *)
(* the number of rows of the base as read plus the reported added, and     *)
(* added + updated + skipped is the number of incoming rows.               *)
(***************************************************************************)
C25_CountsAccountForRows ==
  Imported =>
    /\ Len(file) = Len(last.base) + last.counts.added
    /\ last.counts.added + last.counts.updated + last.counts.skipped
         = Len(last.prep)

\* a manual submission of a film with a title, in a pass that found the
\* base file missing or without rows
SubmittedToEmptyStore ==
  /\ last.op = "manual"
  /\ ~last.before.exists \/ last.before.rows = <<>>
  /\ Trimmed(last.name) # <<>>

(***************************************************************************)
(* C26.  Starting from a base file that is missing or holds no rows, the   *)
(* add-film page is reached through main() and the manual add of a film    *)
(* with a title succeeds: afterwards the base file exists and holds        *)
(* exactly that one row (under the header row).                            *)
(***************************************************************************)
C26_FirstFilmCanBeAdded ==
  SubmittedToEmptyStore =>
    /\ last.outcome = "saved"
    /\ fileExists
    /\ Len(file) = 1
    /\ TitleOf(file[1]) = Trimmed(last.name)
    /\ CellInt(file[1].Year) = Num(last.year)

\* a handler that has just written the base file
WroteBase ==
  \/ last.op = "manual" /\ last.outcome = "saved"
  \/ last.op = "bulk" /\ last.outcome = "imported"
  \/ last.op = "audit" /\ last.outcome = "fixed"

\* what load_database makes of the base file as it is
FileTable == load_database(fileExists, file, fileExists).df

(***************************************************************************)
(* C29.  Within one session every handler that writes the base file        *)
(* (manual add, bulk import, rating correction) leaves the cache of        *)
(* load_database empty at the end of its pass; a table the cache holds is  *)
(* always what load_database makes of the file as it is, and so is the     *)
(* table main() gets from the call at its top, never a table cached        *)
(* before a write.                                                         *)
(***************************************************************************)
C29_WriteClearsCache ==
  /\ WroteBase => ~cache.filled
  /\ cache.filled => cache.df = FileTable
  /\ (last.op = "main" /\ last.outcome = "shown") => last.out = FileTable

\* a write that changed what load_database makes of the file, in a pass
\* whose call of load_database had filled the cache with the table before
C29_WriteClearsCache_Reached ==
  /\ WroteBase
  /\ ~cache.filled
  /\ load_database(last.before.exists, last.before.rows, TRUE).df # <<>>
  /\ FileTable # load_database(last.before.exists, last.before.rows, TRUE).df

\* no two rows of the enrichment table rows carry the same key
UniqueKeys(rows) ==
  \A j, k \in 1..Len(rows) : rows[j].Key = rows[k].Key => j = k

(***************************************************************************)
(* C27.  The enrichment file holds at most one row per key: an enrichment  *)
(* by manual add, by bulk import or by the TMDb run that finds a file      *)
(* with unique keys leaves a file with unique keys (each key of the file   *)
(* is the key of one row).                                                 *)
(***************************************************************************)
C27_EnrichmentKeysUnique ==
  (enr.op # "none" /\ UniqueKeys(enr.before)) => UniqueKeys(detailed)

\* the enrichment the file held for a key before the run: the id of a row
\* of that key that has one, no value when no row of the key has an id
StoredId(key) ==
  IF \E j \in 1..Len(enr.before) :
       enr.before[j].Key = key /\ enr.before[j].TMDB_ID # Missing
  THEN (CHOOSE r \in {enr.before[j] : j \in 1..Len(enr.before)} :
          r.Key = key /\ r.TMDB_ID # Missing).TMDB_ID
  ELSE Missing

WasLookedUp(j) == \E k \in 1..Len(enr.looked) : enr.looked[k] = j

(***************************************************************************)
(* C28.  A TMDb run never loses or changes the enrichment of a film still  *)
(* in the base file unless a lookup for that film succeeded in the run:    *)
(* with "only missing" ticked no row that has a TMDB_ID is looked up, and  *)
(* every base row that was not looked up, or whose lookup failed, has in   *)
(* the written file the enrichment stored for its key before the run.      *)
(***************************************************************************)
C28_RunKeepsEnrichment ==
  (enr.op = "tmdb_run") =>
    /\ Len(detailed) = Len(last.base)
    /\ enr.only_missing =>
         \A j \in 1..Len(detailed) :
            WasLookedUp(j) => StoredId(detailed[j].Key) = Missing
    /\ \A j \in 1..Len(detailed) :
         (~WasLookedUp(j) \/ ~LookupSucceeded(j)) =>
            detailed[j].TMDB_ID = StoredId(detailed[j].Key)

\* the tags of a companion
TagsOf(name) ==
  {companions[j].tag : j \in {k \in 1..Len(companions) : companions[k].name = name}}

\* text holds tag as a whole token: bounded by blanks or by the ends
HasToken(text, tag) ==
  \E i \in 1..Len(text) :
     /\ i + Len(tag) - 1 <= Len(text)
     /\ SubSeq(text, i, i + Len(tag) - 1) = tag
     /\ i = 1 \/ text[i - 1] = " "
     /\ i + Len(tag) - 1 = Len(text) \/ text[i + Len(tag)] = " "

(***************************************************************************)
(* C30.  In the companion analysis a film is counted for a companion only  *)
(* if its Tag Diario holds one of that companion's tags as a whole token   *)
(* (a film tagged only 'c:mo' is counted for Monica and for no companion   *)
(* whose tag, such as 'c:m', is a proper prefix of it), and each film is   *)
(* counted at most once per companion.                                     *)
(***************************************************************************)
C30_CompanionByWholeTag ==
  (probe.fn = "companions") =>
    \A c \in probe.counts :
       /\ \A k \in 1..Len(c.films) :
            /\ probe.df[c.films[k].idx].Tag # NaNName
            /\ \E tag \in TagsOf(c.name) :
                 HasToken(probe.df[c.films[k].idx].Tag, tag)
       /\ \A k, n \in 1..Len(c.films) :
            c.films[k].idx = c.films[n].idx => k = n

====
